---- MODULE Spec2Model ----
(***************************************************************************)
(* A model of HdfsAvroScanner (be/src/exec/hdfs-avro-scanner.cc): the      *)
(* Avro container header decoder, the schema resolver and the block loop.  *)
(*                                                                         *)
(* C++ indices are 0-based and are kept 0-based in col_path, field indices *)
(* and error arguments; TLA+ sequences are 1-based, so an index k reads    *)
(* element k + 1.                                                          *)
(***************************************************************************)
EXTENDS Integers, Sequences, FiniteSets, TLC

VARIABLES
    build,          \* how the binary was built: are DCHECKs compiled in, and
                    \* what a read through a mis-cast avro schema pointer yields
    scan_node,      \* HdfsScanNode: avro_schema, materialized_slots, ...
    avro_header_,   \* AvroFileHeader of the file being read
    stream_,        \* the byte stream: its bytes and total_bytes_returned
    counts_read,    \* the metadata block counts ParseMetadata read, each with
                    \* the stream position right after it
    status,         \* Status returned by the last call ("NONE" before any call)
    op,             \* the last operation that ran
    codegend_decode_avro_data_,  \* the codegen'd DecodeAvroData, or "NULL"
    decompressor_,  \* the codec of the scanner's decompressor, or "NONE"
    sink,           \* the scan context's rows: the capacity GetMemory hands
                    \* out, the scan node's limit, the rows committed and
                    \* the rows_read counter
    blocks,         \* what ProcessRange did with each block of the range
    ranges,         \* the number of InitNewRange calls so far
    frame,          \* ProcessRange's locals when it is followed step by
                    \* step: pc ("records" inside while (num_records > 0),
                    \* else "none"), num_records, the decode window data
                    \* and how far into it the decoder has advanced
    materialize_tuple_fn,   \* what CodegenMaterializeTuple made of the table
                            \* schema ("NONE" before it ran)
    interpreted,    \* what MaterializeTuple did with the record in the stream
    specialized     \* what the codegen'd MaterializeTuple did with it

loop_vars == <<frame>>

decode_vars == <<materialize_tuple_fn, interpreted, specialized>>

scan_vars == <<codegend_decode_avro_data_, decompressor_, sink, blocks, ranges,
               loop_vars, decode_vars>>

vars == <<build, scan_node, avro_header_, stream_, counts_read, status, op,
          codegend_decode_avro_data_, decompressor_, sink, blocks, ranges,
          frame,
          materialize_tuple_fn, interpreted, specialized>>

(***************************************************************************)
(* Schema model                                                            *)
(***************************************************************************)

\* AvroSchemaElement: schema->type, the record's field names and defaults
\* (kept in the avro_schema_t), the children, and null_union_position
\* (-1 when the element is not a [null, T] union).
Scalar(t, nup) ==
    [type |-> t, precision |-> 0, scale |-> 0, null_union_position |-> nup,
     names |-> <<>>, defaults |-> <<>>, children |-> <<>>]

Decimal(p, s, nup) ==
    [type |-> "AVRO_DECIMAL", precision |-> p, scale |-> s,
     null_union_position |-> nup,
     names |-> <<>>, defaults |-> <<>>, children |-> <<>>]

Record(names, defaults, children, nup) ==
    [type |-> "AVRO_RECORD", precision |-> 0, scale |-> 0,
     null_union_position |-> nup,
     names |-> names, defaults |-> defaults, children |-> children]

\* avro_datum_t of a field default; NoDefault is the NULL pointer
\* avro_schema_record_field_default returns for a field without default.
NoDefault == [type |-> "NONE", value |-> 0]

Datum(t, v) == [type |-> t, value |-> v]

nullable(e) == e.null_union_position # -1

RECURSIVE NodeAt(_, _)
\* The element reached from root by a sequence of (1-based) child positions.
NodeAt(root, p) ==
    IF p = <<>> THEN root ELSE NodeAt(root.children[Head(p)], Tail(p))

RECURSIVE NodePaths(_)
\* The positions of all elements of a schema tree.
NodePaths(e) ==
    {<<>>} \cup
    UNION { { <<k>> \o p : p \in NodePaths(e.children[k]) } :
            k \in 1..Len(e.children) }

\* ColumnType
ColumnType(t) == [type |-> t, precision |-> 0, scale |-> 0]

DecimalType(p, s) == [type |-> "TYPE_DECIMAL", precision |-> p, scale |-> s]

\* ColumnType::IsStringType
IsStringType(ct) == ct.type \in {"TYPE_STRING", "TYPE_VARCHAR", "TYPE_CHAR"}

\* AvroSchemaToColumnType (util/avro-util): the Impala type an Avro schema
\* or datum of type t maps to.
AvroSchemaToColumnType(schema) ==
    CASE schema.type \in {"AVRO_STRING", "AVRO_BYTES"} -> ColumnType("TYPE_STRING")
      [] schema.type = "AVRO_INT32"   -> ColumnType("TYPE_INT")
      [] schema.type = "AVRO_INT64"   -> ColumnType("TYPE_BIGINT")
      [] schema.type = "AVRO_FLOAT"   -> ColumnType("TYPE_FLOAT")
      [] schema.type = "AVRO_DOUBLE"  -> ColumnType("TYPE_DOUBLE")
      [] schema.type = "AVRO_BOOLEAN" -> ColumnType("TYPE_BOOLEAN")
      [] schema.type = "AVRO_DECIMAL" -> DecimalType(schema.precision, schema.scale)
      [] OTHER -> ColumnType("INVALID_TYPE")

(***************************************************************************)
(* VerifyTypesMatch                                                        *)
(***************************************************************************)

\* The writer types the switch of VerifyTypesMatch(ColumnType, ColumnType)
\* has a case for; any other writer type runs into DCHECK(false).
HandledWriterTypes ==
    {"TYPE_DECIMAL", "TYPE_STRING", "TYPE_INT", "TYPE_BIGINT",
     "TYPE_FLOAT", "TYPE_DOUBLE", "TYPE_BOOLEAN"}

\* ColumnTypesMatch with the TYPE_BIGINT case falling through from TYPE_INT:
\* an int64 writer is let into an int32 reader.
ColumnTypesMatchNarrowing(reader_type, writer_type) ==
    CASE writer_type.type = "TYPE_DECIMAL" ->
            /\ reader_type.type = "TYPE_DECIMAL"
            /\ reader_type.scale = writer_type.scale
            /\ reader_type.precision = writer_type.precision
      [] writer_type.type = "TYPE_STRING" -> IsStringType(reader_type)
      [] writer_type.type \in {"TYPE_INT", "TYPE_BIGINT"} ->
            reader_type.type \in {"TYPE_INT", "TYPE_BIGINT", "TYPE_FLOAT", "TYPE_DOUBLE"}
      [] writer_type.type = "TYPE_FLOAT" ->
            reader_type.type \in {"TYPE_FLOAT", "TYPE_DOUBLE"}
      [] writer_type.type = "TYPE_DOUBLE" -> reader_type.type = "TYPE_DOUBLE"
      [] writer_type.type = "TYPE_BOOLEAN" -> reader_type.type = "TYPE_BOOLEAN"
      [] OTHER -> FALSE

\* ColumnTypesMatch with the TYPE_DOUBLE case falling through from TYPE_FLOAT:
\* a double writer is let into a float reader.
ColumnTypesMatchDoubleToFloat(reader_type, writer_type) ==
    CASE writer_type.type = "TYPE_DECIMAL" ->
            /\ reader_type.type = "TYPE_DECIMAL"
            /\ reader_type.scale = writer_type.scale
            /\ reader_type.precision = writer_type.precision
      [] writer_type.type = "TYPE_STRING" -> IsStringType(reader_type)
      [] writer_type.type = "TYPE_INT" ->
            reader_type.type \in {"TYPE_INT", "TYPE_BIGINT", "TYPE_FLOAT", "TYPE_DOUBLE"}
      [] writer_type.type = "TYPE_BIGINT" ->
            reader_type.type \in {"TYPE_BIGINT", "TYPE_FLOAT", "TYPE_DOUBLE"}
      [] writer_type.type \in {"TYPE_FLOAT", "TYPE_DOUBLE"} ->
            reader_type.type \in {"TYPE_FLOAT", "TYPE_DOUBLE"}
      [] writer_type.type = "TYPE_BOOLEAN" -> reader_type.type = "TYPE_BOOLEAN"
      [] OTHER -> FALSE

\* VerifyTypesMatch(const ColumnType& reader_type, const ColumnType& writer_type)
ColumnTypesMatch(reader_type, writer_type) ==
    CASE writer_type.type = "TYPE_DECIMAL" ->
            /\ reader_type.type = "TYPE_DECIMAL"
            /\ reader_type.scale = writer_type.scale
            /\ reader_type.precision = writer_type.precision
      [] writer_type.type = "TYPE_STRING" -> IsStringType(reader_type)
      [] writer_type.type = "TYPE_INT" ->
            reader_type.type \in {"TYPE_INT", "TYPE_BIGINT", "TYPE_FLOAT", "TYPE_DOUBLE"}
      [] writer_type.type = "TYPE_BIGINT" ->
            reader_type.type \in {"TYPE_BIGINT", "TYPE_FLOAT", "TYPE_DOUBLE"}
      [] writer_type.type = "TYPE_FLOAT" ->
            reader_type.type \in {"TYPE_FLOAT", "TYPE_DOUBLE"}
      [] writer_type.type = "TYPE_DOUBLE" -> reader_type.type = "TYPE_DOUBLE"
      [] writer_type.type = "TYPE_BOOLEAN" -> reader_type.type = "TYPE_BOOLEAN"
      [] OTHER -> FALSE

\* The Status a bool match turns into; the DCHECK(false) of the default case
\* aborts a build that compiles DCHECKs in.
MatchStatus(b, reader_type, writer_type, error) ==
    IF writer_type.type \notin HandledWriterTypes /\ b.dchecks THEN "DCHECK_FAILED"
    ELSE IF ColumnTypesMatch(reader_type, writer_type) THEN "OK"
    ELSE error

\* VerifyTypesMatch on elements with the nullability test after the type tests.
VerifyTypesMatchElementTypesFirst(b, table_schema, file_schema) ==
    IF file_schema.type = "AVRO_NULL"
    THEN IF table_schema.type = "AVRO_NULL" \/ nullable(table_schema)
         THEN "OK" ELSE "AVRO_SCHEMA_RESOLUTION_ERROR"
    ELSE IF (table_schema.type = "AVRO_RECORD") # (file_schema.type = "AVRO_RECORD")
    THEN "AVRO_SCHEMA_RESOLUTION_ERROR"
    ELSE IF table_schema.type # "AVRO_RECORD"
            /\ MatchStatus(b, AvroSchemaToColumnType(table_schema),
                            AvroSchemaToColumnType(file_schema),
                            "AVRO_SCHEMA_RESOLUTION_ERROR") # "OK"
    THEN "AVRO_SCHEMA_RESOLUTION_ERROR"
    ELSE IF ~nullable(table_schema) /\ nullable(file_schema)
    THEN "AVRO_NULLABILITY_MISMATCH"
    ELSE "OK"

\* VerifyTypesMatch(const AvroSchemaElement& table_schema,
\*                  const AvroSchemaElement& file_schema, field_name)
VerifyTypesMatchElement(b, table_schema, file_schema) ==
    IF ~nullable(table_schema) /\ nullable(file_schema)
    THEN "AVRO_NULLABILITY_MISMATCH"
    ELSE IF file_schema.type = "AVRO_NULL"
    THEN IF table_schema.type = "AVRO_NULL" \/ nullable(table_schema)
         THEN "OK" ELSE "AVRO_SCHEMA_RESOLUTION_ERROR"
    ELSE IF (table_schema.type = "AVRO_RECORD") # (file_schema.type = "AVRO_RECORD")
    THEN "AVRO_SCHEMA_RESOLUTION_ERROR"
    ELSE IF table_schema.type = "AVRO_RECORD" THEN "OK"
    ELSE MatchStatus(b, AvroSchemaToColumnType(table_schema),
                     AvroSchemaToColumnType(file_schema),
                     "AVRO_SCHEMA_RESOLUTION_ERROR")

\* VerifyTypesMatch(SlotDescriptor* slot_desc, avro_obj_t* schema); schema is
\* a reader field's schema or a default value's datum.
VerifyTypesMatchSlot(b, slot, schema) ==
    IF schema.type = "AVRO_NULL" THEN "OK"
    ELSE IF schema.type = "AVRO_RECORD" THEN "AVRO_SCHEMA_METADATA_MISMATCH"
    ELSE MatchStatus(b, slot.type, AvroSchemaToColumnType(schema),
                     "AVRO_SCHEMA_METADATA_MISMATCH")

(***************************************************************************)
(* WriteDefaultValue and ResolveSchemas                                    *)
(***************************************************************************)

\* One slot of the template tuple.
Unwritten == [written |-> FALSE, is_null |-> FALSE, value |-> 0]

\* The default kinds WriteDefaultValue writes with RawValue::Write.
WritableDefaults ==
    {"AVRO_BOOLEAN", "AVRO_INT32", "AVRO_INT64", "AVRO_FLOAT", "AVRO_DOUBLE",
     "AVRO_STRING", "AVRO_BYTES"}

\* WriteDefaultValue writing a default of any kind into a slot of any type.
WriteDefaultValueAnyKind(b, h, s, slot, default_value) ==
    [status |-> "OK",
     header |-> [h EXCEPT !.template_tuple[s] =
                    [written |-> TRUE, is_null |-> default_value.type = "AVRO_NULL",
                     value |-> default_value.value]]]

\* WriteDefaultValue(slot_desc, default_value, field_name) on header h, for the
\* slot at position s of materialized_slots: [status, header].
WriteDefaultValue(b, h, s, slot, default_value) ==
    IF default_value.type \in WritableDefaults \cup {"AVRO_NULL"}
    THEN LET v == VerifyTypesMatchSlot(b, slot, default_value) IN
         IF v # "OK" THEN [status |-> v, header |-> h]
         ELSE [status |-> "OK",
               header |-> [h EXCEPT !.template_tuple[s] =
                   IF default_value.type = "AVRO_NULL"
                   THEN [written |-> TRUE, is_null |-> TRUE, value |-> 0]
                   ELSE [written |-> TRUE, is_null |-> FALSE,
                         value |-> default_value.value]]]
    ELSE [status |-> "AVRO_UNSUPPORTED_DEFAULT_VALUE", header |-> h]

\* avro_schema_record_field_get_index on a record schema: the (0-based) index
\* of the field called field_name, -1 when there is none.
FieldGetIndex(record, field_name) ==
    IF \E k \in 1..Len(record.names) : record.names[k] = field_name
    THEN (CHOOSE k \in 1..Len(record.names) : record.names[k] = field_name) - 1
    ELSE -1

\* The index with the partition keys left uncounted at every depth.
TableFieldIdxNoOffset(path, i, num_partition_keys) == path[i]

\* int table_field_idx = i > 0 ? path[i] : path[i] - num_partition_keys, for
\* the (1-based) step i of the path.
TableFieldIdx(path, i, num_partition_keys) ==
    IF i > 1 THEN path[i] ELSE path[i] - num_partition_keys

\* The header with one more read of the table record on its history: the
\* index the record's field name, default or child is asked at, and the
\* record's number of fields.
TableRead(h, table_field_idx, num_fields) ==
    [h EXCEPT !.table_reads =
        @ \cup {[table_field_idx |-> table_field_idx, num_fields |-> num_fields]}]

RECURSIVE ResolvePath(_, _, _, _, _, _, _)
\* The body of the loop over the column path of slot s, from step i (1-based)
\* on, with table_record and file_record given by their positions tp and fp:
\* [status, header].
ResolvePath(b, sn, h, s, i, tp, fp) ==
    LET slot == sn.materialized_slots[s]
        path == slot.col_path
    IN
    IF i > Len(path) THEN [status |-> "OK", header |-> h]
    ELSE
    LET table_record == NodeAt(sn.avro_schema, tp)
        file_record == NodeAt(h.schema, fp)
        table_field_idx == TableFieldIdx(path, i, sn.num_partition_keys)
        num_fields == Len(table_record.children)
    IN
    IF table_field_idx >= num_fields
    THEN [status |-> "AVRO_MISSING_FIELD", header |-> h]
    ELSE
    IF table_field_idx < 0
    THEN \* avro_schema_record_field_name looks outside the record's fields
         [status |-> IF b.wild_read = "fault" THEN "SIGSEGV"
                     ELSE "AVRO_MISSING_DEFAULT",
          header |-> TableRead(h, table_field_idx, num_fields)]
    ELSE
    LET hr == TableRead(h, table_field_idx, num_fields)
        field_name == table_record.names[table_field_idx + 1]
        \* file_record->schema is cast to a record schema unchecked
        wild == file_record.type # "AVRO_RECORD"
        file_field_idx ==
            IF wild THEN -1 ELSE FieldGetIndex(file_record, field_name)
    IN
    IF wild /\ b.wild_read = "fault"
    THEN [status |-> "SIGSEGV", header |-> hr]
    ELSE IF file_field_idx < 0
    THEN LET default_value == table_record.defaults[table_field_idx + 1] IN
         IF default_value = NoDefault
         THEN [status |-> "AVRO_MISSING_DEFAULT", header |-> hr]
         ELSE LET w == WriteDefaultValue(b, hr, s, slot, default_value) IN
              IF w.status # "OK" THEN w
              ELSE IF b.dchecks /\ i # Len(path)
              THEN [status |-> "DCHECK_FAILED", header |-> w.header]
              ELSE ResolvePath(b, sn, w.header, s, i + 1, tp, fp)
    ELSE
    LET table_field == table_record.children[table_field_idx + 1]
        file_field == file_record.children[file_field_idx + 1]
        v == VerifyTypesMatchElement(b, table_field, file_field)
    IN
    IF v # "OK" THEN [status |-> v, header |-> hr]
    ELSE IF i # Len(path)
    THEN IF table_record.type # "AVRO_RECORD"
         THEN [status |-> "AVRO_NOT_A_RECORD", header |-> hr]
         ELSE IF b.dchecks /\ file_record.type # "AVRO_RECORD"
         THEN [status |-> "DCHECK_FAILED", header |-> hr]
         ELSE ResolvePath(b, sn, hr, s, i + 1,
                          Append(tp, table_field_idx + 1),
                          Append(fp, file_field_idx + 1))
    ELSE LET vs == VerifyTypesMatchSlot(b, slot, table_field) IN
         IF vs # "OK" THEN [status |-> vs, header |-> hr]
         ELSE ResolvePath(b, sn,
                  [hr EXCEPT !.slot_desc[Append(fp, file_field_idx + 1)] = s],
                  s, i + 1, tp, fp)

RECURSIVE ResolveSlots(_, _, _, _)
\* The loop over materialized_slots, from slot s on.
ResolveSlots(b, sn, h, s) ==
    IF s > Len(sn.materialized_slots) THEN [status |-> "OK", header |-> h]
    ELSE LET r == ResolvePath(b, sn, h, s, 1, <<>>, <<>>) IN
         IF r.status # "OK" THEN r ELSE ResolveSlots(b, sn, r.header, s + 1)

\* ResolveSchemas(table_root, file_root), table_root being
\* scan_node_->avro_schema() and file_root the header's schema.
ResolveSchemasResult(b, sn, h) ==
    IF sn.avro_schema.type # "AVRO_RECORD"
    THEN [status |-> "Table schema is not a record", header |-> h]
    ELSE IF h.schema.type # "AVRO_RECORD"
    THEN [status |-> "File schema is not a record", header |-> h]
    ELSE ResolveSlots(b, sn, h, 1)

(***************************************************************************)
(* The file header                                                         *)
(***************************************************************************)

\* AllocateFileHeader: a header whose schema is file_schema, no leaf bound to
\* a slot (slot_desc 0 is the NULL pointer) and nothing written to the
\* template tuple.
NewHeader(file_schema, num_slots) ==
    [schema |-> file_schema,
     slot_desc |-> [p \in NodePaths(file_schema) |-> 0],
     template_tuple |-> [s \in 1..num_slots |-> Unwritten],
     table_reads |-> {},
     use_codegend_decode_avro_data |-> FALSE,
     is_compressed |-> FALSE,
     compression_type |-> "NONE",
     sync |-> <<>>,
     header_size |-> 0]

(***************************************************************************)
(* Inputs of the resolver                                                  *)
(***************************************************************************)

MaxSlots == 2      \* materialized slots of a scan node
MaxPathLen == 2    \* steps of a column path

Builds == [dchecks : BOOLEAN]

\* What a read through a non-record schema cast to a record schema can do:
\* fault, or find no field of the name.
WildReads == {"fault", "miss"}

IntDefault == Datum("AVRO_INT32", 5)
NullDefault == Datum("AVRO_NULL", 0)
StringDefault == Datum("AVRO_STRING", 7)
RecordDefault == Datum("AVRO_RECORD", 0)

Int32 == Scalar("AVRO_INT32", -1)
RecX == Record(<<"x">>, <<NoDefault>>, <<Int32>>, -1)
RecXY(dy) == Record(<<"x", "y">>, <<NoDefault, dy>>, <<Int32, Int32>>, -1)

\* Reader (table) schemas with up to two levels of records, and one of a
\* single column.
TableSchemas ==
    { Record(<<"a", "b">>, <<da, NoDefault>>, <<Int32, Int32>>, -1) :
        da \in {NoDefault, IntDefault, NullDefault, StringDefault} }
    \cup
    { Record(<<"b">>, <<NoDefault>>, <<Int32>>, -1) }
    \cup
    { Record(<<"a", "b">>, <<da, NoDefault>>, <<ra, Int32>>, -1) :
        da \in {NoDefault, NullDefault, RecordDefault},
        ra \in {RecXY(NoDefault), RecXY(IntDefault),
                Record(<<"x">>, <<NoDefault>>, <<Int32>>, 0)} }

\* Writer (file) schemas to resolve them against.
FileSchemas ==
    { Record(<<"a", "b">>, <<NoDefault, NoDefault>>, <<Int32, Int32>>, -1),
      Record(<<"b", "a">>, <<NoDefault, NoDefault>>, <<Int32, Int32>>, -1),
      Record(<<"b">>, <<NoDefault>>, <<Int32>>, -1),
      Record(<<"a", "b">>, <<NoDefault, NoDefault>>,
             <<Scalar("AVRO_INT32", 0), Int32>>, -1),
      Record(<<"a", "b">>, <<NoDefault, NoDefault>>,
             <<Scalar("AVRO_NULL", -1), Int32>>, -1),
      Record(<<"a", "b">>, <<NoDefault, NoDefault>>, <<RecXY(NoDefault), Int32>>, -1),
      Record(<<"b", "a">>, <<NoDefault, NoDefault>>, <<Int32, RecX>>, -1) }

\* Column positions used in paths; the schemas above have at most two fields
\* per record, so position 1 is out of range in the one-field records.
ColIdx == {0, 1}

PartitionKeyCounts == {0, 1}

\* Column paths of 1..MaxPathLen steps; the first step counts the partition
\* keys, which come first among the table's columns.
ColPaths(nkeys) ==
    { p \in UNION { [1..n -> ColIdx \cup {k + nkeys : k \in ColIdx}] :
                    n \in 1..MaxPathLen } :
        /\ p[1] - nkeys \in ColIdx
        /\ \A i \in 2..Len(p) : p[i] \in ColIdx }

\* Slot lists: 1..MaxSlots slots with distinct column paths.
SlotLists(nkeys, types) ==
    { sl \in UNION { [1..n -> [col_path : ColPaths(nkeys), type : types]] :
                     n \in 1..MaxSlots } :
        \A i, j \in 1..Len(sl) : i # j => sl[i].col_path # sl[j].col_path }

\* Leaf schemas and slot types for the type checks.
AvroScalarTypes ==
    {"AVRO_BOOLEAN", "AVRO_INT32", "AVRO_INT64", "AVRO_FLOAT", "AVRO_DOUBLE",
     "AVRO_STRING", "AVRO_BYTES", "AVRO_ENUM"}

LeafElements ==
    { Scalar(t, nup) : t \in AvroScalarTypes, nup \in {-1, 0} }
    \cup { Scalar("AVRO_NULL", -1) }
    \cup { Decimal(ps[1], ps[2], nup) :
             ps \in {<<4, 2>>, <<5, 2>>, <<4, 1>>}, nup \in {-1, 0} }

SlotTypes ==
    { ColumnType(t) :
        t \in {"TYPE_BOOLEAN", "TYPE_TINYINT", "TYPE_INT", "TYPE_BIGINT",
               "TYPE_FLOAT", "TYPE_DOUBLE", "TYPE_STRING", "TYPE_VARCHAR",
               "TYPE_CHAR", "TYPE_TIMESTAMP"} }
    \cup { DecimalType(4, 2), DecimalType(5, 2), DecimalType(4, 1) }

ScanNode(table_schema, slots, nkeys) ==
    [avro_schema |-> table_schema,
     materialized_slots |-> slots,
     num_partition_keys |-> nkeys,
     codegen_fn |-> "NULL"]

\* One-column tables and files of every pair of leaf types, read into a slot
\* of every type.
InitTypes ==
    \E e1 \in LeafElements, e2 \in LeafElements, st \in SlotTypes,
       nkeys \in PartitionKeyCounts :
        /\ scan_node = ScanNode(Record(<<"a">>, <<NoDefault>>, <<e1>>, -1),
                                <<[col_path |-> <<nkeys>>, type |-> st]>>, nkeys)
        /\ avro_header_ = NewHeader(Record(<<"a">>, <<NoDefault>>, <<e2>>, -1), 1)

\* Nested tables and files with missing, reordered and defaulted fields.
InitShapes ==
    \E t \in TableSchemas, f \in FileSchemas, nkeys \in PartitionKeyCounts :
    \E sl \in SlotLists(nkeys, {ColumnType("TYPE_INT")}) :
        /\ scan_node = ScanNode(t, sl, nkeys)
        /\ avro_header_ = NewHeader(f, Len(sl))

NoStream == [bytes |-> <<>>, total_bytes_returned |-> 0]

\* A sink of the given capacity and limit (-1: none) with nothing committed.
NewSink(capacity, limit) ==
    [capacity |-> capacity, limit |-> limit, committed |-> 0, rows_read |-> 0]

\* ProcessRange's locals outside a block.
NoFrame == [pc |-> "none", num_records |-> 0, data |-> <<>>, cursor |-> 0]

\* No MaterializeTuple function generated yet, and a decoder not yet run.
NoFn == [state |-> "NONE", code |-> <<>>]
NotRun == [ran |-> FALSE, success |-> FALSE, cursor |-> 0, tuple |-> <<>>, reads |-> <<>>]

\* The scanner as its constructor leaves it, before any range.
Constructed ==
    /\ codegend_decode_avro_data_ = "NULL"
    /\ decompressor_ = "NONE"
    /\ blocks = <<>>
    /\ ranges = 0
    /\ frame = NoFrame
    /\ materialize_tuple_fn = NoFn
    /\ interpreted = NotRun
    /\ specialized = NotRun

InitResolve ==
    /\ build \in Builds
    /\ InitTypes \/ InitShapes
    /\ stream_ = NoStream
    /\ counts_read = <<>>
    /\ status = "NONE"
    /\ op = "none"
    /\ Constructed
    /\ sink = NewSink(1, -1)

\* ResolveSchemas on the header's schema, as ParseMetadata calls it.
ResolveSchemas ==
    /\ op = "none"
    /\ \E wr \in WildReads :
        LET r == ResolveSchemasResult(
                     [dchecks |-> build.dchecks, wild_read |-> wr],
                     scan_node, avro_header_)
        IN /\ avro_header_' = r.header
           /\ status' = r.status
    /\ op' = "ResolveSchemas"
    /\ UNCHANGED <<build, scan_node, stream_, counts_read, scan_vars>>

NextResolve == ResolveSchemas

SpecResolve == InitResolve /\ [][NextResolve]_vars

\* Column paths as ColPaths, and those whose first step falls among the
\* partition keys.
KeyColPaths(nkeys) ==
    { p \in UNION { [1..n -> ColIdx \cup {k + nkeys : k \in ColIdx}] :
                    n \in 1..MaxPathLen } :
        \A i \in 2..Len(p) : p[i] \in ColIdx }

KeySlotLists(nkeys) ==
    { sl \in UNION { [1..n -> [col_path : KeyColPaths(nkeys),
                               type : {ColumnType("TYPE_INT")}]] :
                     n \in 1..MaxSlots } :
        \A i, j \in 1..Len(sl) : i # j => sl[i].col_path # sl[j].col_path }

\* The tables and files of InitShapes with slots of any such column path.
InitKeyPaths ==
    /\ build \in Builds
    /\ \E t \in TableSchemas, f \in FileSchemas, nkeys \in PartitionKeyCounts :
       \E sl \in KeySlotLists(nkeys) :
        /\ scan_node = ScanNode(t, sl, nkeys)
        /\ avro_header_ = NewHeader(f, Len(sl))
    /\ stream_ = NoStream
    /\ counts_read = <<>>
    /\ status = "NONE"
    /\ op = "none"
    /\ Constructed
    /\ sink = NewSink(1, -1)

SpecResolveKeyPaths == InitKeyPaths /\ [][NextResolve]_vars

(***************************************************************************)
(* The byte stream                                                         *)
(***************************************************************************)

\* A position is the number of bytes returned so far (total_bytes_returned).

\* Stream::ReadBytes(n): the next n bytes, or failure when fewer are left.
ReadBytes(bytes, pos, n) ==
    IF pos + n > Len(bytes)
    THEN [ok |-> FALSE, data |-> <<>>, pos |-> pos]
    ELSE [ok |-> TRUE, data |-> SubSeq(bytes, pos + 1, pos + n), pos |-> pos + n]

RECURSIVE ReadVarint(_, _, _, _)
\* The unsigned variable-length integer at pos: 7 bits per byte, low group
\* first, the high bit of a byte saying that another follows.
ReadVarint(bytes, pos, weight, acc) ==
    IF pos >= Len(bytes) THEN [ok |-> FALSE, value |-> 0, pos |-> pos]
    ELSE LET byte == bytes[pos + 1]
             sum == acc + (byte % 128) * weight
         IN IF byte >= 128 THEN ReadVarint(bytes, pos + 1, weight * 128, sum)
            ELSE [ok |-> TRUE, value |-> sum, pos |-> pos + 1]

\* (u >> 1) ^ -(u & 1)
ZigZagDecode(u) == IF u % 2 = 0 THEN u \div 2 ELSE -((u + 1) \div 2)

\* Stream::ReadZLong: a zig-zag variable-length long.
ReadZLong(bytes, pos) ==
    LET r == ReadVarint(bytes, pos, 1, 0)
    IN [ok |-> r.ok, value |-> ZigZagDecode(r.value), pos |-> r.pos]

(***************************************************************************)
(* ReadFileHeader and ParseMetadata                                        *)
(***************************************************************************)

AVRO_VERSION_HEADER == <<79, 98, 106, 1>>                                  \* "Obj\1"
AVRO_SCHEMA_KEY == <<97, 118, 114, 111, 46, 115, 99, 104, 101, 109, 97>>   \* "avro.schema"
AVRO_CODEC_KEY == <<97, 118, 114, 111, 46, 99, 111, 100, 101, 99>>         \* "avro.codec"
AVRO_NULL_CODEC == <<110, 117, 108, 108>>                                  \* "null"
AVRO_SNAPPY_CODEC == <<115, 110, 97, 112, 112, 121>>                       \* "snappy"
AVRO_DEFLATE_CODEC == <<100, 101, 102, 108, 97, 116, 101>>                 \* "deflate"

SYNC_HASH_SIZE == 16

\* The schema of a header no avro.schema entry has filled in: no children.
NoSchema == Scalar("AVRO_INVALID", -1)

\* The schema texts the JSON parser accepts, by their stand-in bytes "{k}",
\* and the schema tree avro_schema_from_json_length and ConvertSchema make of
\* each.
SchemaText(k) == <<123, 48 + k, 125>>

TableAB == Record(<<"a", "b">>, <<NoDefault, NoDefault>>, <<Int32, Int32>>, -1)
TableBA == Record(<<"b", "a">>, <<NoDefault, NoDefault>>, <<Int32, Int32>>, -1)

\* A record schema without fields, and a schema that is no record.
EmptyRecord == Record(<<>>, <<>>, <<>>, -1)

ParsedSchemas ==
    (SchemaText(1) :> TableAB) @@ (SchemaText(2) :> TableBA)
    @@ (SchemaText(3) :> EmptyRecord) @@ (SchemaText(4) :> Int32)

RECURSIVE SchemaEqual(_, _)
\* avro_schema_equal: the same types, field names and union shapes throughout.
SchemaEqual(x, y) ==
    /\ x.type = y.type
    /\ x.precision = y.precision
    /\ x.scale = y.scale
    /\ x.null_union_position = y.null_union_position
    /\ x.names = y.names
    /\ Len(x.children) = Len(y.children)
    /\ \A k \in 1..Len(x.children) : SchemaEqual(x.children[k], y.children[k])

\* The first block count is rejected when it is below 1 ...
FirstCountInvalidBelowZero(num_entries) == num_entries < 0

FirstCountInvalid(num_entries) == num_entries < 1

\* ... and a later one when it is below 0.
LaterCountInvalid(num_entries) == num_entries < 0

\* A parse state: the status so far, the header being filled, the stream
\* position and the block counts read.
Fail(st, error) == [st EXCEPT !.status = error]

\* The end of the avro.schema branch: r is what ResolveSchemas returned.
SchemaResolved(sn, st, file_schema, r) ==
    IF r.status # "OK"
    THEN [st EXCEPT !.status = r.status, !.header = r.header]
    ELSE [st EXCEPT !.header =
             [r.header EXCEPT !.use_codegend_decode_avro_data =
                 SchemaEqual(sn.avro_schema, file_schema)]]

\* The loop body without the avro.codec branch: a codec entry is skipped like
\* any other key.
MetadataEntryCodecSkipped(b, sn, st, key, value) ==
    IF key = AVRO_SCHEMA_KEY
    THEN IF value \notin DOMAIN ParsedSchemas
         THEN Fail(st, "Failed to parse file schema")
         ELSE LET file_schema == ParsedSchemas[value]
                  h == [st.header EXCEPT
                           !.schema = file_schema,
                           !.slot_desc = [p \in NodePaths(file_schema) |-> 0]]
              IN SchemaResolved(sn, st, file_schema, ResolveSchemasResult(b, sn, h))
    ELSE st

\* The body of the loop over the entries of a block for one key/value pair.
MetadataEntry(b, sn, st, key, value) ==
    IF key = AVRO_SCHEMA_KEY
    THEN IF value \notin DOMAIN ParsedSchemas
         THEN Fail(st, "Failed to parse file schema")
         ELSE LET file_schema == ParsedSchemas[value]
                  h == [st.header EXCEPT
                           !.schema = file_schema,
                           !.slot_desc = [p \in NodePaths(file_schema) |-> 0]]
              IN SchemaResolved(sn, st, file_schema, ResolveSchemasResult(b, sn, h))
    ELSE IF key = AVRO_CODEC_KEY
    THEN IF value # AVRO_NULL_CODEC
         THEN IF value = AVRO_SNAPPY_CODEC
              THEN [st EXCEPT !.header.is_compressed = TRUE,
                              !.header.compression_type = "SNAPPY"]
              ELSE IF value = AVRO_DEFLATE_CODEC
              THEN [st EXCEPT !.header.is_compressed = TRUE,
                              !.header.compression_type = "DEFLATE"]
              ELSE [st EXCEPT !.header.is_compressed = TRUE,
                              !.status = "Unknown Avro compression codec"]
         ELSE st
    ELSE st

RECURSIVE ParseEntries(_, _, _, _, _, _)
\* for (int i = 0; i < num_entries; ++i): read a key and a value, act on them;
\* an error in an entry ends the loop with that error.
ParseEntries(b, sn, bytes, st, i, num_entries) ==
    IF i >= num_entries \/ st.status # "OK" THEN st
    ELSE
    LET kl == ReadZLong(bytes, st.pos) IN
    IF ~kl.ok THEN Fail([st EXCEPT !.pos = kl.pos], "ShortRead")
    ELSE IF kl.value < 0 THEN Fail([st EXCEPT !.pos = kl.pos], "AVRO_INVALID_LENGTH")
    ELSE
    LET k == ReadBytes(bytes, kl.pos, kl.value) IN
    IF ~k.ok THEN Fail([st EXCEPT !.pos = k.pos], "ShortRead")
    ELSE
    LET vl == ReadZLong(bytes, k.pos) IN
    IF ~vl.ok THEN Fail([st EXCEPT !.pos = vl.pos], "ShortRead")
    ELSE IF vl.value < 0 THEN Fail([st EXCEPT !.pos = vl.pos], "AVRO_INVALID_LENGTH")
    ELSE
    LET v == ReadBytes(bytes, vl.pos, vl.value) IN
    IF ~v.ok THEN Fail([st EXCEPT !.pos = v.pos], "ShortRead")
    ELSE ParseEntries(b, sn, bytes,
                      MetadataEntry(b, sn, [st EXCEPT !.pos = v.pos], k.data, v.data),
                      i + 1, num_entries)

RECURSIVE ParseBlocks(_, _, _, _, _)
RECURSIVE NextCount(_, _, _, _)

\* while (num_entries != 0): the entries of the block, then the next count.
ParseBlocks(b, sn, bytes, st, num_entries) ==
    IF num_entries = 0 THEN st
    ELSE NextCount(b, sn, bytes, ParseEntries(b, sn, bytes, st, 0, num_entries))

\* The end of the loop body, st being the state after the block's entries:
\* read the next count and go round again.
NextCount(b, sn, bytes, st) ==
    IF st.status # "OK" THEN st
    ELSE
    LET n == ReadZLong(bytes, st.pos) IN
    IF ~n.ok THEN Fail([st EXCEPT !.pos = n.pos], "ShortRead")
    ELSE
    LET st2 == [st EXCEPT !.pos = n.pos,
                          !.counts = Append(@, [value |-> n.value, end |-> n.pos])]
    IN IF LaterCountInvalid(n.value)
       THEN Fail(st2, "AVRO_INVALID_METADATA_COUNT")
       ELSE ParseBlocks(b, sn, bytes, st2, n.value)

\* The end of ParseMetadata without the test for a schema.
SchemaFoundUnchecked(st) == st

\* The end of ParseMetadata, st being the state after the loop.
SchemaFound(st) ==
    IF st.status # "OK" THEN st
    ELSE IF st.header.schema.children = <<>>
    THEN Fail(st, "Schema not found in file header metadata")
    ELSE st

\* ParseMetadata from the state st.
ParseMetadata(b, sn, bytes, st) ==
    LET st1 == [st EXCEPT !.header.is_compressed = FALSE,
                          !.header.compression_type = "NONE"]
        n == ReadZLong(bytes, st1.pos)
    IN
    IF ~n.ok THEN Fail([st1 EXCEPT !.pos = n.pos], "ShortRead")
    ELSE
    LET st2 == [st1 EXCEPT !.pos = n.pos,
                           !.counts = Append(@, [value |-> n.value, end |-> n.pos])]
    IN
    IF FirstCountInvalid(n.value) THEN Fail(st2, "AVRO_INVALID_METADATA_COUNT")
    ELSE SchemaFound(ParseBlocks(b, sn, bytes, st2, n.value))

\* header_size as ReadFileHeader could have set it: all the bytes returned.
HeaderSizeWithSync(total_bytes_returned) == total_bytes_returned

\* header_->header_size = stream_->total_bytes_returned() - SYNC_HASH_SIZE
HeaderSize(total_bytes_returned) == total_bytes_returned - SYNC_HASH_SIZE

\* The end of ReadFileHeader, st being the state after ParseMetadata: read the
\* sync marker and set the header's size.
ReadHeaderSync(bytes, st) ==
    IF st.status # "OK" THEN st
    ELSE
    LET sync == ReadBytes(bytes, st.pos, SYNC_HASH_SIZE) IN
    IF ~sync.ok THEN Fail(st, "ShortRead")
    ELSE [st EXCEPT !.pos = sync.pos,
                    !.header.sync = sync.data,
                    !.header.header_size = HeaderSize(sync.pos)]

\* ReadFileHeader on a stream of the given bytes, nothing of it returned yet,
\* into the header h: [status, header, pos, counts].
ReadFileHeaderResult(b, sn, h, bytes) ==
    LET st == [status |-> "OK", header |-> h, pos |-> 0, counts |-> <<>>]
        magic == ReadBytes(bytes, 0, Len(AVRO_VERSION_HEADER))
    IN
    IF ~magic.ok THEN Fail(st, "ShortRead")
    ELSE IF magic.data # AVRO_VERSION_HEADER
    THEN Fail([st EXCEPT !.pos = magic.pos], "AVRO_BAD_VERSION_HEADER")
    ELSE ReadHeaderSync(bytes,
             ParseMetadata(b, sn, bytes, [st EXCEPT !.pos = magic.pos]))

(***************************************************************************)
(* Inputs of the header decoder                                            *)
(***************************************************************************)

MaxMetaEntries == 2     \* key/value entries in a file's metadata map

RECURSIVE EncodeVarint(_)
EncodeVarint(u) ==
    IF u < 128 THEN <<u>> ELSE <<128 + (u % 128)>> \o EncodeVarint(u \div 128)

\* A long as a writer encodes it: zig-zag, then variable-length.
EncodeZLong(n) == EncodeVarint(IF n >= 0 THEN 2 * n ELSE -2 * n - 1)

\* A key/value entry: the length and bytes of the key, then of the value.
EncodeEntry(key, value) ==
    EncodeZLong(Len(key)) \o key \o EncodeZLong(Len(value)) \o value

\* The entries files carry: the writer schema (the table's own, one with the
\* fields in the other order, a record without fields, or an int), a codec
\* (known or not), and a key the
\* scanner skips, whose value is long enough for a two-byte length.
MetaEntries ==
    { EncodeEntry(AVRO_SCHEMA_KEY, SchemaText(1)),
      EncodeEntry(AVRO_SCHEMA_KEY, SchemaText(2)),
      EncodeEntry(AVRO_SCHEMA_KEY, SchemaText(3)),
      EncodeEntry(AVRO_SCHEMA_KEY, SchemaText(4)),
      EncodeEntry(AVRO_CODEC_KEY, AVRO_NULL_CODEC),
      EncodeEntry(AVRO_CODEC_KEY, AVRO_SNAPPY_CODEC),
      EncodeEntry(AVRO_CODEC_KEY, AVRO_DEFLATE_CODEC),
      EncodeEntry(AVRO_CODEC_KEY, <<120>>),
      EncodeEntry(<<120>>, [i \in 1..64 |-> 0]) }

RECURSIVE Concat(_)
Concat(seqs) == IF seqs = <<>> THEN <<>> ELSE Head(seqs) \o Concat(Tail(seqs))

RECURSIVE EncodeMap(_)
\* The encodings of a map with the given entries: any split of the entries
\* into blocks, each headed by its count, or by the negated count and the
\* block's size in bytes; a count of 0 ends the map.
EncodeMap(entries) ==
    IF entries = <<>> THEN { EncodeZLong(0) }
    ELSE UNION {
        LET block == Concat(SubSeq(entries, 1, k))
            rest == EncodeMap(SubSeq(entries, k + 1, Len(entries)))
        IN { head \o block \o r :
               head \in { EncodeZLong(k),
                          EncodeZLong(-k) \o EncodeZLong(Len(block)) },
               r \in rest }
        : k \in 1..Len(entries) }

SyncMarker == [i \in 1..SYNC_HASH_SIZE |-> 200 + i]

\* What follows the header in the file: nothing, or the start of a block.
FileTails == { <<>>, <<2, 4, 1, 1>> \o SyncMarker }

\* Files are cut short by this many bytes.
Cuts == {0, 1, 22}

Files ==
    { SubSeq(f, 1, Len(f) - cut) :
        f \in { AVRO_VERSION_HEADER \o m \o SyncMarker \o t :
                  m \in UNION { EncodeMap(es) :
                                  es \in UNION { [1..n -> MetaEntries] :
                                                   n \in 0..MaxMetaEntries } },
                  t \in FileTails },
        cut \in Cuts }
    \cup { <<79, 98, 106, 2>> \o EncodeZLong(0) \o SyncMarker }

\* The scan node reads column a of the table, or no column at all.
HeaderSlotLists == { <<>>, <<[col_path |-> <<0>>, type |-> ColumnType("TYPE_INT")]>> }

InitHeader ==
    /\ build \in Builds
    /\ \E sl \in HeaderSlotLists :
        /\ scan_node = ScanNode(TableAB, sl, 0)
        /\ avro_header_ = NewHeader(NoSchema, Len(sl))
    /\ \E f \in Files : stream_ = [bytes |-> f, total_bytes_returned |-> 0]
    /\ counts_read = <<>>
    /\ status = "NONE"
    /\ op = "none"
    /\ Constructed
    /\ sink = NewSink(1, -1)

\* ReadFileHeader on the stream, from its start.
ReadFileHeader ==
    /\ op = "none"
    /\ \E wr \in WildReads :
        LET r == ReadFileHeaderResult(
                     [dchecks |-> build.dchecks, wild_read |-> wr],
                     scan_node, avro_header_, stream_.bytes)
        IN /\ avro_header_' = r.header
           /\ status' = r.status
           /\ stream_' = [stream_ EXCEPT !.total_bytes_returned = r.pos]
           /\ counts_read' = r.counts
    /\ op' = "ReadFileHeader"
    /\ UNCHANGED <<build, scan_node, scan_vars>>

NextHeader == ReadFileHeader

SpecHeader == InitHeader /\ [][NextHeader]_vars

(***************************************************************************)
(* InitNewRange and ProcessRange                                           *)
(***************************************************************************)

TRAILING_CHECKSUM_LEN == 4

\* A record of a data block is one byte here; this byte is a malformed one.
BadRecord == 255

RECURSIVE DecodeAvroData(_, _, _, _)
\* DecodeAvroData (interpreted or codegen'd) on the window data from cursor:
\* decodes up to max_tuples records and reports how many it decoded before a
\* failure, which it leaves in parse_status_; decoded counts those so far.
DecodeAvroData(max_tuples, data, cursor, decoded) ==
    IF decoded >= max_tuples
    THEN [num_to_commit |-> decoded, cursor |-> cursor, parse_status |-> "OK"]
    ELSE IF cursor >= Len(data)
    THEN [num_to_commit |-> decoded, cursor |-> cursor,
          parse_status |-> "AVRO_TRUNCATED_BLOCK"]
    ELSE IF data[cursor + 1] = BadRecord
    THEN [num_to_commit |-> decoded, cursor |-> cursor,
          parse_status |-> "AVRO_INVALID_UNION"]
    ELSE DecodeAvroData(max_tuples, data, cursor + 1, decoded + 1)

\* WriteEmptyTuples: nothing is decoded, every tuple is written.
WriteEmptyTuples(max_tuples, cursor) ==
    [num_to_commit |-> max_tuples, cursor |-> cursor, parse_status |-> "OK"]

\* Codec::ProcessBlock of the decompressor on the first input_length bytes of
\* input. A compressed payload is the length of the data, then the data.
ProcessBlock(input_length, input) ==
    IF input_length < 1 \/ input_length > Len(input)
    THEN [status |-> "DECOMPRESS_FAILED", data |-> <<>>]
    ELSE IF input[1] # input_length - 1
    THEN [status |-> "DECOMPRESS_FAILED", data |-> <<>>]
    ELSE [status |-> "OK", data |-> SubSeq(input, 2, input_length)]

\* The length handed on with the checksum of a snappy block counted in.
DecompressorInputLengthWithChecksum(compression_type, compressed_size) ==
    compressed_size

\* The length handed to the decompressor for a block of compressed_size bytes.
DecompressorInputLength(compression_type, compressed_size) ==
    IF compression_type = "SNAPPY"
    THEN compressed_size - TRAILING_CHECKSUM_LEN
    ELSE compressed_size

\* GetMemory handing out no tuple at all.
MaxTuplesNone(num_records, capacity) == 0

\* max_tuples = min(num_records, GetMemory(...))
MaxTuples(num_records, capacity) ==
    IF num_records < capacity THEN num_records ELSE capacity

\* What a batch commits if the error check came after the commit.
RowsCommittedBeforeCheck(parse_status, num_to_commit) == num_to_commit

\* RETURN_IF_ERROR(parse_status_) comes before CommitRows(num_to_commit): the
\* rows a batch commits.
RowsCommitted(parse_status, num_to_commit) ==
    IF parse_status # "OK" THEN 0 ELSE num_to_commit

\* A loop that stops after its first batch.
RecordsLeftNone(num_records, max_tuples) == 0

\* num_records -= max_tuples
RecordsLeft(num_records, max_tuples) == num_records - max_tuples

\* scan_node_->ReachedLimit()
ReachedLimit(limit, committed) == limit # -1 /\ committed >= limit

\* The decoder the block loop calls for a batch.
Decoder(env) ==
    IF env.slots_empty THEN "WriteEmptyTuples"
    ELSE IF env.codegend_decode_avro_data # "NULL" THEN "codegend_decode_avro_data_"
    ELSE "DecodeAvroData"

\* What is recorded of a block: its header, what the decompressor was given
\* and gave, the rows committed before it, its batches, the sync bytes read
\* after it and how it ended.
NewBlock(sc, num_records, compressed_size) ==
    [num_records |-> num_records, compressed_size |-> compressed_size,
     decompressed |-> FALSE, input_length |-> 0, data_len |-> 0,
     committed_before |-> sc.committed,
     batches |-> <<>>, sync |-> <<>>, outcome |-> "open"]

RECURSIVE ProcessBatches(_, _, _, _)
\* while (num_records > 0): decode a batch, commit it, count it.
ProcessBatches(env, sc, data, num_records) ==
    IF num_records <= 0 \/ sc.status # "OK" \/ sc.returned THEN sc
    ELSE
    LET max_tuples == MaxTuples(num_records, env.capacity)
        d == IF env.slots_empty THEN WriteEmptyTuples(max_tuples, sc.cursor)
             ELSE DecodeAvroData(max_tuples, data, sc.cursor, 0)
        committed == RowsCommitted(d.parse_status, d.num_to_commit)
        batch == [max_tuples |-> max_tuples, num_to_commit |-> d.num_to_commit,
                  parse_status |-> d.parse_status, committed |-> committed,
                  decoder |-> Decoder(env)]
    IN IF d.parse_status # "OK"
       THEN [sc EXCEPT !.status = d.parse_status,
                       !.cursor = d.cursor,
                       !.committed = @ + committed,
                       !.blk.batches = Append(@, batch)]
       ELSE ProcessBatches(env,
                [sc EXCEPT !.cursor = d.cursor,
                           !.committed = @ + committed,
                           !.rows_read = @ + max_tuples,
                           !.blk.batches = Append(@, batch),
                           !.returned = ReachedLimit(env.limit, sc.committed + committed)],
                data, RecordsLeft(num_records, max_tuples))

\* The end of a block with any 16 bytes taken for the sync marker.
EndBlockAnySync(env, sc) ==
    IF sc.status # "OK"
    THEN [sc EXCEPT !.blocks = Append(@, [sc.blk EXCEPT !.outcome = "error"])]
    ELSE IF sc.returned
    THEN [sc EXCEPT !.blocks = Append(@, [sc.blk EXCEPT !.outcome = "limit"])]
    ELSE
    LET sync == ReadBytes(env.bytes, sc.pos, SYNC_HASH_SIZE) IN
    IF ~sync.ok
    THEN [sc EXCEPT !.status = "ShortRead",
                    !.blocks = Append(@, [sc.blk EXCEPT !.outcome = "error"])]
    ELSE [sc EXCEPT !.pos = sync.pos,
                    !.blocks = Append(@, [sc.blk EXCEPT !.sync = sync.data,
                                                        !.outcome = "done"])]

\* The end of a block, sc being the state after its batches: ReadSync reads
\* the 16 bytes after the block and compares them with the header's.
EndBlock(env, sc) ==
    IF sc.status # "OK"
    THEN [sc EXCEPT !.blocks = Append(@, [sc.blk EXCEPT !.outcome = "error"])]
    ELSE IF sc.returned
    THEN [sc EXCEPT !.blocks = Append(@, [sc.blk EXCEPT !.outcome = "limit"])]
    ELSE
    LET sync == ReadBytes(env.bytes, sc.pos, SYNC_HASH_SIZE) IN
    IF ~sync.ok
    THEN [sc EXCEPT !.status = "ShortRead",
                    !.blocks = Append(@, [sc.blk EXCEPT !.outcome = "error"])]
    ELSE IF sync.data # env.header.sync
    THEN [sc EXCEPT !.status = "SYNC_LOST", !.pos = sync.pos,
                    !.blocks = Append(@, [sc.blk EXCEPT !.sync = sync.data,
                                                        !.outcome = "error"])]
    ELSE [sc EXCEPT !.pos = sync.pos,
                    !.blocks = Append(@, [sc.blk EXCEPT !.sync = sync.data,
                                                        !.outcome = "done"])]


\* The block's data: decompressed if the file is compressed, else as read.
BlockData(env, compressed_size, compressed_data) ==
    IF env.header.is_compressed
    THEN LET len == DecompressorInputLength(env.header.compression_type,
                                            compressed_size)
             out == ProcessBlock(len, compressed_data)
         IN [status |-> out.status, data |-> out.data,
             decompressed |-> TRUE, input_length |-> len]
    ELSE [status |-> "OK", data |-> compressed_data,
          decompressed |-> FALSE, input_length |-> 0]

\* One turn of while (!finished()): read a block, decode it, check the sync.
ProcessOneBlock(env, sc) ==
    LET nr == ReadZLong(env.bytes, sc.pos) IN
    IF ~nr.ok THEN [sc EXCEPT !.status = "ShortRead"]
    ELSE IF nr.value < 0
    THEN [sc EXCEPT !.status = "AVRO_INVALID_RECORD_COUNT", !.pos = nr.pos]
    ELSE
    LET cs == ReadZLong(env.bytes, nr.pos) IN
    IF ~cs.ok THEN [sc EXCEPT !.status = "ShortRead", !.pos = nr.pos]
    ELSE IF cs.value < 0
    THEN [sc EXCEPT !.status = "AVRO_INVALID_COMPRESSED_SIZE", !.pos = cs.pos]
    ELSE
    LET cd == ReadBytes(env.bytes, cs.pos, cs.value) IN
    IF ~cd.ok THEN [sc EXCEPT !.status = "ShortRead", !.pos = cs.pos]
    ELSE
    LET bd == BlockData(env, cs.value, cd.data)
        blk == [NewBlock(sc, nr.value, cs.value) EXCEPT
                   !.decompressed = bd.decompressed,
                   !.input_length = bd.input_length,
                   !.data_len = Len(bd.data)]
    IN EndBlock(env,
           ProcessBatches(env,
               [sc EXCEPT !.status = bd.status, !.pos = cd.pos,
                          !.cursor = 0, !.blk = blk],
               bd.data, nr.value))

RECURSIVE ProcessBlocks(_, _)
\* while (!finished()): the range is finished at the end of the stream.
ProcessBlocks(env, sc) ==
    IF sc.status # "OK" \/ sc.returned \/ sc.pos >= Len(env.bytes) THEN sc
    ELSE ProcessBlocks(env, ProcessOneBlock(env, sc))

\* ProcessRange of a scanner in the given state: the state it returns in.
ProcessRangeResult(env, pos, committed, rows_read) ==
    ProcessBlocks(env,
        [status |-> "OK", returned |-> FALSE, pos |-> pos,
         committed |-> committed, rows_read |-> rows_read, cursor |-> 0,
         blocks |-> <<>>, blk |-> NewBlock([committed |-> committed], 0, 0)])

(***************************************************************************)
(* Inputs of the block loop                                                *)
(***************************************************************************)

MaxRecords == 2     \* records a block declares
MaxRanges == 2      \* ranges a scanner is initialised for

GoodRecord == 2

\* A file header with the given metadata entries in one block.
HeaderBytes(entries) ==
    AVRO_VERSION_HEADER \o EncodeZLong(Len(entries)) \o Concat(entries)
        \o EncodeZLong(0) \o SyncMarker

SchemaEntry(k) == EncodeEntry(AVRO_SCHEMA_KEY, SchemaText(k))
CodecEntry(codec) == EncodeEntry(AVRO_CODEC_KEY, codec)

\* A data block: the record count, the size of the payload, the payload and
\* the sync marker.
Block(num_records, payload, sync) ==
    EncodeZLong(num_records) \o EncodeZLong(Len(payload)) \o payload \o sync

BadSync == [i \in 1..SYNC_HASH_SIZE |-> 100 + i]

\* The payloads of n records, well-formed or not.
Payloads(n) == [1..n -> {GoodRecord, BadRecord}]

GoodPayload(n) == [i \in 1..n |-> GoodRecord]

\* Blocks of uncompressed files: every payload of up to MaxRecords records,
\* a payload one record short, a negative count, a negative size, a wrong
\* sync marker and a missing one.
PlainBlocks ==
    UNION { { Block(n, p, SyncMarker) : p \in Payloads(n) } : n \in 0..MaxRecords }
    \cup { Block(n, GoodPayload(n - 1), SyncMarker) : n \in 1..MaxRecords }
    \cup { EncodeZLong(-1) \o EncodeZLong(1) \o <<GoodRecord>> \o SyncMarker,
           EncodeZLong(1) \o EncodeZLong(-1) \o <<GoodRecord>> \o SyncMarker,
           Block(MaxRecords, GoodPayload(MaxRecords), BadSync),
           Block(1, GoodPayload(1), <<>>) }

\* The blocks after which the loop goes on to the next one.
GoodBlocks == { Block(n, GoodPayload(n), SyncMarker) : n \in 0..MaxRecords }

\* The compressed form of a payload, and the checksum snappy blocks carry.
Compressed(payload) == <<Len(payload)>> \o payload
Checksum == <<9, 9, 9, 9>>

\* Compressed blocks: good ones, one whose compressed data is corrupt and
\* one whose declared size is below the length of the checksum.
SnappyBlocks ==
    { Block(n, Compressed(GoodPayload(n)) \o Checksum, SyncMarker) :
        n \in 0..MaxRecords }
    \cup { Block(1, <<7, GoodRecord>> \o Checksum, SyncMarker),
           Block(1, <<1, GoodRecord>>, SyncMarker) }

DeflateBlocks ==
    { Block(n, Compressed(GoodPayload(n)), SyncMarker) : n \in 0..MaxRecords }
    \cup { Block(1, <<7, GoodRecord>>, SyncMarker) }

\* Files to scan: the table's own schema or the reordered one, uncompressed
\* or compressed, with one or two blocks, a block with a wrong sync marker
\* being the last or the first of two.
ScanFiles ==
    { HeaderBytes(<<SchemaEntry(1)>>) \o b : b \in PlainBlocks }
    \cup { HeaderBytes(<<SchemaEntry(1)>>) \o g \o b :
             g \in GoodBlocks, b \in PlainBlocks }
    \cup { HeaderBytes(<<SchemaEntry(2)>>) \o b : b \in GoodBlocks }
    \cup { HeaderBytes(<<SchemaEntry(1)>>) \o Block(1, GoodPayload(1), BadSync) \o g :
             g \in GoodBlocks }
    \cup { HeaderBytes(<<CodecEntry(AVRO_SNAPPY_CODEC), SchemaEntry(1)>>) \o b :
             b \in SnappyBlocks }
    \cup { HeaderBytes(<<CodecEntry(AVRO_DEFLATE_CODEC), SchemaEntry(1)>>) \o b :
             b \in DeflateBlocks }

\* The scan node's file headers: what ReadFileHeader made of each file when
\* its header was read, by the build and the slots of the scan node.
FileHeaders ==
    [b \in Builds |->
        [sl \in HeaderSlotLists |->
            [f \in ScanFiles |->
                ReadFileHeaderResult([dchecks |-> b.dchecks, wild_read |-> "miss"],
                                     ScanNode(TableAB, sl, 0),
                                     NewHeader(NoSchema, Len(sl)), f)]]]

Capacities == {1, 2}
Limits == {-1, 1}

InitScan ==
    /\ build \in Builds
    /\ \E sl \in HeaderSlotLists, fn \in {"NULL", "DecodeAvroData"} :
        scan_node = [ScanNode(TableAB, sl, 0) EXCEPT !.codegen_fn = fn]
    /\ avro_header_ = NewHeader(NoSchema, Len(scan_node.materialized_slots))
    /\ stream_ = NoStream
    /\ counts_read = <<>>
    /\ status = "NONE"
    /\ op = "none"
    /\ Constructed
    /\ \E capacity \in Capacities, limit \in Limits : sink = NewSink(capacity, limit)

\* InitNewRange for a range at the start of file f, the scanner's first range
\* or the next after a range that ended well: header_ is the header the scan
\* node keeps for the file, and the stream stands after the header's sync
\* marker.
InitNewRange ==
    /\ ranges < MaxRanges
    /\ op \in {"none", "ProcessRange"}
    /\ status \in {"NONE", "OK"}
    /\ \E f \in ScanFiles :
       \E r \in { FileHeaders[build][scan_node.materialized_slots][f] } :
        /\ r.status = "OK"
        /\ avro_header_' = r.header
        /\ stream_' = [bytes |-> f, total_bytes_returned |-> r.pos]
        /\ counts_read' = r.counts
        /\ decompressor_' = IF r.header.is_compressed
                            THEN r.header.compression_type
                            ELSE decompressor_
        /\ codegend_decode_avro_data_' =
               IF r.header.use_codegend_decode_avro_data
               THEN scan_node.codegen_fn
               ELSE codegend_decode_avro_data_
    /\ blocks' = <<>>
    /\ ranges' = ranges + 1
    /\ status' = "OK"
    /\ op' = "InitNewRange"
    /\ UNCHANGED <<build, scan_node, sink, loop_vars, decode_vars>>

\* ProcessRange on the range InitNewRange prepared.
ProcessRange ==
    /\ op = "InitNewRange"
    /\ \E r \in { ProcessRangeResult(
                      [bytes |-> stream_.bytes,
                       header |-> avro_header_,
                       codegend_decode_avro_data |-> codegend_decode_avro_data_,
                       slots_empty |-> scan_node.materialized_slots = <<>>,
                       capacity |-> sink.capacity,
                       limit |-> sink.limit],
                      stream_.total_bytes_returned, sink.committed, sink.rows_read) } :
        /\ status' = r.status
        /\ stream_' = [stream_ EXCEPT !.total_bytes_returned = r.pos]
        /\ sink' = [sink EXCEPT !.committed = r.committed, !.rows_read = r.rows_read]
        /\ blocks' = r.blocks
    /\ op' = "ProcessRange"
    /\ UNCHANGED <<build, scan_node, avro_header_, counts_read,
                   codegend_decode_avro_data_, decompressor_, ranges,
                   loop_vars, decode_vars>>

NextScan == InitNewRange \/ ProcessRange

SpecScan == InitScan /\ [][NextScan]_vars

(***************************************************************************)
(* ProcessRange step by step                                               *)
(***************************************************************************)

\* The environment of ProcessRange in the current state.
RangeEnv ==
    [bytes |-> stream_.bytes,
     header |-> avro_header_,
     codegend_decode_avro_data |-> codegend_decode_avro_data_,
     slots_empty |-> scan_node.materialized_slots = <<>>,
     capacity |-> sink.capacity,
     limit |-> sink.limit]

\* ProcessRange has been entered and has not returned.
InRange == op = "InitNewRange"

\* The block being processed.
LastBlock == blocks[Len(blocks)]

\* What "Read new data block" gives: [status, pos, read, blk, data], read
\* telling whether the block's bytes were read.
BlockRead(st, pos, read, blk, data) ==
    [status |-> st, pos |-> pos, read |-> read, blk |-> blk, data |-> data]

NoBlock == NewBlock([committed |-> 0], 0, 0)

\* A read the code does not come to.
NotRead == [ok |-> FALSE, value |-> 0, data |-> <<>>, pos |-> 0]

\* "Read new data block" up to data_end = data + data_len, from the stream
\* position pos, given what its reads return: nr the record count, cs the
\* compressed size, cd the block's bytes, bd the data after decompression.
ReadNewBlock(committed, pos, nr, cs, cd, bd) ==
    IF ~nr.ok
    THEN BlockRead("ShortRead", pos, FALSE, NoBlock, <<>>)
    ELSE IF nr.value < 0
    THEN BlockRead("AVRO_INVALID_RECORD_COUNT", nr.pos, FALSE, NoBlock, <<>>)
    ELSE IF ~cs.ok
    THEN BlockRead("ShortRead", nr.pos, FALSE, NoBlock, <<>>)
    ELSE IF cs.value < 0
    THEN BlockRead("AVRO_INVALID_COMPRESSED_SIZE", cs.pos, FALSE, NoBlock, <<>>)
    ELSE IF ~cd.ok
    THEN BlockRead("ShortRead", cs.pos, FALSE, NoBlock, <<>>)
    ELSE BlockRead(bd.status, cd.pos, TRUE,
                   [NewBlock([committed |-> committed], nr.value, cs.value) EXCEPT
                       !.decompressed = bd.decompressed,
                       !.input_length = bd.input_length,
                       !.data_len = Len(bd.data),
                       !.outcome = IF bd.status = "OK" THEN "open" ELSE "error"],
                   bd.data)

\* return st; from ProcessRange
Return(st) ==
    /\ status' = st
    /\ op' = "ProcessRange"
    /\ frame' = NoFrame

\* while (!finished()) finds the range finished: return Status::OK().
RangeFinished ==
    /\ InRange
    /\ frame.pc = "none"
    /\ stream_.total_bytes_returned >= Len(stream_.bytes)
    /\ Return("OK")
    /\ UNCHANGED <<build, scan_node, avro_header_, stream_, counts_read,
                   codegend_decode_avro_data_, decompressor_, sink, blocks,
                   ranges, decode_vars>>

\* The head of a turn of while (!finished()): read the block's counts and
\* bytes and decompress them.
ReadBlock ==
    /\ InRange
    /\ frame.pc = "none"
    /\ stream_.total_bytes_returned < Len(stream_.bytes)
    /\ \E env \in { RangeEnv } :
       \E nr \in { ReadZLong(env.bytes, stream_.total_bytes_returned) } :
       \E cs \in { IF nr.ok /\ nr.value >= 0
                   THEN ReadZLong(env.bytes, nr.pos) ELSE NotRead } :
       \E cd \in { IF cs.ok /\ cs.value >= 0
                   THEN ReadBytes(env.bytes, cs.pos, cs.value) ELSE NotRead } :
       \E bd \in { IF cd.ok THEN BlockData(env, cs.value, cd.data) ELSE NotRead } :
       \E r \in { ReadNewBlock(sink.committed, stream_.total_bytes_returned,
                                nr, cs, cd, bd) } :
        /\ stream_' = [stream_ EXCEPT !.total_bytes_returned = r.pos]
        /\ blocks' = IF r.read THEN Append(blocks, r.blk) ELSE blocks
        /\ IF r.status = "OK"
           THEN /\ frame' = [pc |-> "records", num_records |-> r.blk.num_records,
                             data |-> r.data, cursor |-> 0]
                /\ UNCHANGED <<status, op>>
           ELSE Return(r.status)
    /\ UNCHANGED <<build, scan_node, avro_header_, counts_read,
                   codegend_decode_avro_data_, decompressor_, sink, ranges,
                   decode_vars>>

\* One turn of while (num_records > 0). A block of up to MaxRecords records
\* is followed for MaxRecords + 1 batches.
ProcessBatch ==
    /\ InRange
    /\ frame.pc = "records"
    /\ frame.num_records > 0
    /\ Len(LastBlock.batches) <= MaxRecords
    /\ LET max_tuples == MaxTuples(frame.num_records, sink.capacity)
           d == IF RangeEnv.slots_empty
                THEN WriteEmptyTuples(max_tuples, frame.cursor)
                ELSE DecodeAvroData(max_tuples, frame.data, frame.cursor, 0)
           committed == RowsCommitted(d.parse_status, d.num_to_commit)
           batch == [max_tuples |-> max_tuples, num_to_commit |-> d.num_to_commit,
                     parse_status |-> d.parse_status, committed |-> committed,
                     decoder |-> Decoder(RangeEnv)]
           n == Len(blocks)
       IN IF d.parse_status # "OK"
          THEN /\ Return(d.parse_status)
               /\ blocks' = [blocks EXCEPT ![n].batches = Append(@, batch),
                                           ![n].outcome = "error"]
               /\ sink' = sink
          ELSE /\ sink' = [sink EXCEPT !.committed = @ + committed,
                                       !.rows_read = @ + max_tuples]
               /\ IF ReachedLimit(sink.limit, sink.committed + committed)
                  THEN /\ Return("OK")
                       /\ blocks' = [blocks EXCEPT ![n].batches = Append(@, batch),
                                                   ![n].outcome = "limit"]
                  ELSE /\ frame' = [frame EXCEPT
                                       !.num_records = RecordsLeft(@, max_tuples),
                                       !.cursor = d.cursor]
                       /\ blocks' = [blocks EXCEPT ![n].batches = Append(@, batch)]
                       /\ UNCHANGED <<status, op>>
    /\ UNCHANGED <<build, scan_node, avro_header_, stream_, counts_read,
                   codegend_decode_avro_data_, decompressor_, ranges, decode_vars>>

\* RETURN_IF_ERROR(ReadSync()) after the block's records.
ReadSync ==
    /\ InRange
    /\ frame.pc = "records"
    /\ frame.num_records <= 0
    /\ LET sync == ReadBytes(stream_.bytes, stream_.total_bytes_returned, SYNC_HASH_SIZE)
           n == Len(blocks)
       IN IF ~sync.ok
          THEN /\ Return("ShortRead")
               /\ blocks' = [blocks EXCEPT ![n].outcome = "error"]
               /\ stream_' = stream_
          ELSE /\ stream_' = [stream_ EXCEPT !.total_bytes_returned = sync.pos]
               /\ IF sync.data # avro_header_.sync
                  THEN /\ Return("SYNC_LOST")
                       /\ blocks' = [blocks EXCEPT ![n].sync = sync.data,
                                                   ![n].outcome = "error"]
                  ELSE /\ frame' = NoFrame
                       /\ blocks' = [blocks EXCEPT ![n].sync = sync.data,
                                                   ![n].outcome = "done"]
                       /\ UNCHANGED <<status, op>>
    /\ UNCHANGED <<build, scan_node, avro_header_, counts_read,
                   codegend_decode_avro_data_, decompressor_, sink, ranges,
                   decode_vars>>

\* A scanner without a generated decoder before its first range, its sink
\* handing out 0 tuples or more.
InitRangeSteps ==
    /\ build = [dchecks |-> FALSE]
    /\ \E sl \in HeaderSlotLists : scan_node = ScanNode(TableAB, sl, 0)
    /\ avro_header_ = NewHeader(NoSchema, Len(scan_node.materialized_slots))
    /\ stream_ = NoStream
    /\ counts_read = <<>>
    /\ status = "NONE"
    /\ op = "none"
    /\ Constructed
    /\ \E capacity \in {0} \cup Capacities, limit \in Limits :
        sink = NewSink(capacity, limit)

ProcessRangeStep == RangeFinished \/ ReadBlock \/ ProcessBatch \/ ReadSync

NextRangeSteps == InitNewRange \/ ProcessRangeStep

\* ProcessRange runs on the scanner's thread, which goes on to its next step.
SpecRangeSteps ==
    InitRangeSteps /\ [][NextRangeSteps]_vars /\ WF_vars(ProcessRangeStep)

(***************************************************************************)
(* MaterializeTuple, interpreted and generated                             *)
(***************************************************************************)

\* A decoding in progress: ok is what the decoder returns so far, cursor the
\* bytes of data consumed, tuple the slots written, reads the calls made.
EmptySlot == [written |-> FALSE, is_null |-> FALSE, value |-> <<>>]

NewDecode(num_slots) ==
    [ok |-> TRUE, cursor |-> 0,
     tuple |-> [s \in 1..num_slots |-> EmptySlot], reads |-> <<>>]

\* A call of a Read function: the arguments that depend on the schema.
ReadCall(fn, slot_type, len, write_slot, slot) ==
    [fn |-> fn, slot_type |-> slot_type, len |-> len,
     write_slot |-> write_slot, slot |-> slot]

ReadFailed(st, call) == [st EXCEPT !.ok = FALSE, !.reads = Append(@, call)]

ReadDone(st, call, pos, value) ==
    [st EXCEPT !.cursor = pos,
               !.reads = Append(@, call),
               !.tuple = IF call.write_slot
                         THEN [@ EXCEPT ![call.slot] =
                                 [written |-> TRUE, is_null |-> FALSE, value |-> value]]
                         ELSE @]

\* ReadAvroBoolean: one byte, 0 or 1.
ReadAvroBoolean(call, data, st) ==
    LET r == ReadBytes(data, st.cursor, 1) IN
    IF ~r.ok \/ r.data \notin {<<0>>, <<1>>} THEN ReadFailed(st, call)
    ELSE ReadDone(st, call, r.pos, r.data)

\* ReadAvroInt32 and ReadAvroInt64: a zig-zag long.
ReadAvroInt(call, data, st) ==
    LET r == ReadZLong(data, st.cursor) IN
    IF ~r.ok THEN ReadFailed(st, call)
    ELSE ReadDone(st, call, r.pos, <<r.value>>)

\* The bytes of a string, bytes or decimal value: a zig-zag length, then as
\* many bytes.
ReadLengthAndBytes(data, cursor) ==
    LET len == ReadZLong(data, cursor) IN
    IF ~len.ok \/ len.value < 0 THEN [ok |-> FALSE, data |-> <<>>, pos |-> cursor]
    ELSE ReadBytes(data, len.pos, len.value)

\* ReadAvroString and ReadAvroDecimal.
ReadAvroString(call, data, st) ==
    LET r == ReadLengthAndBytes(data, st.cursor) IN
    IF ~r.ok THEN ReadFailed(st, call)
    ELSE ReadDone(st, call, r.pos, r.data)

\* ReadAvroVarchar and ReadAvroChar: the value cut to the slot's length.
ReadAvroVarchar(call, data, st) ==
    LET r == ReadLengthAndBytes(data, st.cursor) IN
    IF ~r.ok THEN ReadFailed(st, call)
    ELSE ReadDone(st, call, r.pos,
                  IF Len(r.data) > call.len THEN SubSeq(r.data, 1, call.len)
                  ELSE r.data)

\* ReadAvroFloat and ReadAvroDouble: 4 and 8 bytes.
ReadAvroFixed(call, n, data, st) ==
    LET r == ReadBytes(data, st.cursor, n) IN
    IF ~r.ok THEN ReadFailed(st, call)
    ELSE ReadDone(st, call, r.pos, r.data)

\* The Read function a call names.
ReadLeaf(call, data, st) ==
    CASE call.fn = "ReadAvroBoolean" -> ReadAvroBoolean(call, data, st)
      [] call.fn = "ReadAvroFloat" -> ReadAvroFixed(call, 4, data, st)
      [] call.fn = "ReadAvroDouble" -> ReadAvroFixed(call, 8, data, st)
      [] call.fn \in {"ReadAvroInt32", "ReadAvroInt64"} -> ReadAvroInt(call, data, st)
      [] call.fn \in {"ReadAvroVarchar", "ReadAvroChar"} -> ReadAvroVarchar(call, data, st)
      [] OTHER -> ReadAvroString(call, data, st)

\* ReadUnionType: the branch of a union, 0 or 1; is_null when it is the null
\* branch.
ReadUnionType(null_union_position, data, st) ==
    LET call == [fn |-> "ReadUnionType", null_union_position |-> null_union_position]
        r == ReadZLong(data, st.cursor)
    IN IF ~r.ok \/ r.value \notin {0, 1}
       THEN [st |-> ReadFailed(st, call), is_null |-> FALSE]
       ELSE [st |-> [st EXCEPT !.cursor = r.pos, !.reads = Append(@, call)],
             is_null |-> r.value = null_union_position]

\* tuple->SetNull(slot_desc->null_indicator_offset()), slot 0 being no slot.
SetNull(st, slot) ==
    IF slot = 0 THEN st
    ELSE [st EXCEPT !.tuple[slot] = [written |-> FALSE, is_null |-> TRUE, value |-> <<>>],
                    !.reads = Append(@, [fn |-> "SetNull", slot |-> slot])]

\* slot_desc->type().len of a VARCHAR or CHAR slot.
VarcharType(len) ==
    [type |-> "TYPE_VARCHAR", precision |-> 0, scale |-> 0, len |-> len]

\* The Read function for a string or bytes field and its length argument.
StringReadFn(slots, slot) ==
    IF slot # 0 /\ slots[slot].type.type = "TYPE_VARCHAR"
    THEN [fn |-> "ReadAvroVarchar", len |-> slots[slot].type.len]
    ELSE IF slot # 0 /\ slots[slot].type.type = "TYPE_CHAR"
    THEN [fn |-> "ReadAvroChar", len |-> slots[slot].type.len]
    ELSE [fn |-> "ReadAvroString", len |-> 0]

\* slot_type, INVALID_TYPE without a slot.
SlotTypeOf(slots, slot) ==
    IF slot # 0 THEN slots[slot].type.type ELSE "INVALID_TYPE"

\* The switch of MaterializeTuple over the types with a reader.
MaterializeCall(type, slots, slot) ==
    CASE type = "AVRO_BOOLEAN" ->
             ReadCall("ReadAvroBoolean", SlotTypeOf(slots, slot), 0, slot # 0, slot)
      [] type = "AVRO_INT32" ->
             ReadCall("ReadAvroInt32", SlotTypeOf(slots, slot), 0, slot # 0, slot)
      [] type = "AVRO_INT64" ->
             ReadCall("ReadAvroInt64", SlotTypeOf(slots, slot), 0, slot # 0, slot)
      [] type = "AVRO_FLOAT" ->
             ReadCall("ReadAvroFloat", SlotTypeOf(slots, slot), 0, slot # 0, slot)
      [] type = "AVRO_DOUBLE" ->
             ReadCall("ReadAvroDouble", SlotTypeOf(slots, slot), 0, slot # 0, slot)
      [] type \in {"AVRO_STRING", "AVRO_BYTES"} ->
             ReadCall(StringReadFn(slots, slot).fn, SlotTypeOf(slots, slot),
                      StringReadFn(slots, slot).len, slot # 0, slot)
      [] OTHER ->
             ReadCall("ReadAvroDecimal", SlotTypeOf(slots, slot), 0, slot # 0, slot)

RECURSIVE MaterializeFrom(_, _, _, _, _, _)
\* if (UNLIKELY(!success)) return false; else the next child.
MaterializeNext(h, slots, fp, i, data, after) ==
    IF ~after.ok THEN after
    ELSE MaterializeFrom(h, slots, fp, i + 1, data, after)

\* The switch (type) for child i, u being what the union read gave.
MaterializeChild(h, slots, fp, i, data, element, slot, u) ==
    IF ~u.st.ok THEN u.st
    ELSE IF u.is_null THEN SetNull(u.st, slot)
    ELSE IF element.type = "AVRO_NULL" THEN SetNull(u.st, slot)
    ELSE IF element.type = "AVRO_RECORD"
    THEN MaterializeFrom(h, slots, Append(fp, i), 1, data, u.st)
    ELSE ReadLeaf(MaterializeCall(element.type, slots, slot), data, u.st)

\* The loop of MaterializeTuple over record_schema.children from child i on,
\* record_schema being the node at fp of the header's schema.
MaterializeFrom(h, slots, fp, i, data, st) ==
    IF i > Len(NodeAt(h.schema, fp).children) THEN st
    ELSE MaterializeNext(h, slots, fp, i, data,
             MaterializeChild(h, slots, fp, i, data,
                 NodeAt(h.schema, fp).children[i],
                 h.slot_desc[Append(fp, i)],
                 IF nullable(NodeAt(h.schema, fp).children[i])
                 THEN ReadUnionType(
                          NodeAt(h.schema, fp).children[i].null_union_position,
                          data, st)
                 ELSE [st |-> st, is_null |-> FALSE]))

\* MaterializeTuple(record_schema, pool, data, data_end, tuple) on the
\* header's schema.
MaterializeTupleResult(h, slots, data) ==
    MaterializeFrom(h, slots, <<>>, 1, data, NewDecode(Len(slots)))

\* What the pointer ret_val designates when CodegenReadRecord branches on it
\* without having assigned it: nothing LLVM can read (the build faults), a
\* value that makes the function fail verification, or an i1 value that is
\* true or false when the branch is taken (the is_null just loaded for a
\* nullable field is false there).
UninitBranch == {"fault", "unverifiable", "true", "false"}

\* node->GetMaterializedSlotIdx(path): the slot of that column path, 0 for
\* SKIP_COLUMN.
GetMaterializedSlotIdx(node, path) ==
    IF \E s \in 1..Len(node.materialized_slots) :
           node.materialized_slots[s].col_path = path
    THEN CHOOSE s \in 1..Len(node.materialized_slots) :
           node.materialized_slots[s].col_path = path
    ELSE 0

\* read_field_fn of CodegenReadScalar's switch, "none" for a type without one.
ReadFieldFn(element, slots, slot) ==
    CASE element.type = "AVRO_BOOLEAN" -> "ReadAvroBoolean"
      [] element.type = "AVRO_INT32" -> "ReadAvroInt32"
      [] element.type = "AVRO_INT64" -> "ReadAvroInt64"
      [] element.type = "AVRO_FLOAT" -> "ReadAvroFloat"
      [] element.type = "AVRO_DOUBLE" -> "ReadAvroDouble"
      [] element.type \in {"AVRO_STRING", "AVRO_BYTES"} ->
             IF slot # 0 /\ slots[slot].type.type = "TYPE_VARCHAR" THEN "ReadAvroVarchar"
             ELSE IF slot # 0 /\ slots[slot].type.type = "TYPE_CHAR" THEN "ReadAvroChar"
             ELSE "ReadAvroString"
      [] OTHER -> "none"

\* slot_type_val: getInt32(0), the value of INVALID_TYPE, without a slot, the
\* slot's byte size for a decimal slot, else the slot's type.
SlotTypeVal(slots, slot) ==
    IF slot = 0 THEN "INVALID_TYPE"
    ELSE IF slots[slot].type.type = "TYPE_DECIMAL" THEN "GetByteSize"
    ELSE slots[slot].type.type

\* CodegenReadScalar: the call of the element's Read function, with the
\* length argument for a VARCHAR or CHAR slot, or the error of a type without
\* a Read function.
CodegenReadScalar(element, slots, slot) ==
    IF ReadFieldFn(element, slots, slot) = "none"
    THEN [status |-> "unsupported type",
          call |-> ReadCall("none", "INVALID_TYPE", 0, FALSE, 0)]
    ELSE [status |-> "OK",
          call |-> ReadCall(ReadFieldFn(element, slots, slot),
                            SlotTypeVal(slots, slot),
                            IF slot # 0 /\ slots[slot].type.type \in {"TYPE_VARCHAR", "TYPE_CHAR"}
                            THEN slots[slot].type.len ELSE 0,
                            slot # 0, slot)]

\* The code of one field: the union read of a nullable field, then the
\* nested fields of a record or the call of a scalar, then the branch on
\* cond to end_field or bail_out.
FieldCode(field, slot, fields, call, cond) ==
    [nullable |-> nullable(field),
     null_union_position |-> field.null_union_position,
     slot |-> slot,
     is_record |-> field.type = "AVRO_RECORD",
     fields |-> fields, call |-> call, cond |-> cond]

RECURSIVE CodegenFields(_, _, _, _, _, _)
\* The rest of the loop of CodegenReadRecord after field i, whose code is
\* given with the status of generating it.
CodegenNext(path, record, node, u, i, code, st, field_code) ==
    IF st # "OK" THEN [status |-> st, code |-> code]
    ELSE CodegenFields(path, record, node, u, i + 1, Append(code, field_code))

\* Field i of the loop of CodegenReadRecord, nested being what the recursive
\* call gives for a record field and scalar what CodegenReadScalar gives
\* otherwise; the branch of a record field is on the unassigned ret_val.
CodegenField(path, record, node, u, i, code, field, slot, nested, scalar) ==
    IF field.type = "AVRO_RECORD"
    THEN CodegenNext(path, record, node, u, i, code,
             IF nested.status # "OK" THEN nested.status
             ELSE IF u = "fault" THEN "SIGSEGV" ELSE "OK",
             FieldCode(field, slot, nested.code, scalar.call, u))
    ELSE CodegenNext(path, record, node, u, i, code, scalar.status,
             FieldCode(field, slot, <<>>, scalar.call, "success"))

\* new_path of field i: col_idx counts the partition keys at the table level.
NewPath(path, i, node) ==
    Append(path, IF path = <<>> THEN (i - 1) + node.num_partition_keys ELSE i - 1)

\* The loop of CodegenReadRecord over record.children from field i on.
CodegenFields(path, record, node, u, i, code) ==
    IF i > Len(record.children) THEN [status |-> "OK", code |-> code]
    ELSE CodegenField(path, record, node, u, i, code,
             record.children[i],
             GetMaterializedSlotIdx(node, NewPath(path, i, node)),
             IF record.children[i].type = "AVRO_RECORD"
             THEN CodegenFields(NewPath(path, i, node), record.children[i],
                                node, u, 1, <<>>)
             ELSE [status |-> "OK", code |-> <<>>],
             CodegenReadScalar(record.children[i], node.materialized_slots,
                               GetMaterializedSlotIdx(node, NewPath(path, i, node))))

CodegenReadRecord(path, record, node, u) ==
    CodegenFields(path, record, node, u, 1, <<>>)

RECURSIVE Verifies(_)
\* codegen->FinalizeFunction(fn) verifies the function.
Verifies(code) ==
    \A k \in 1..Len(code) :
        code[k].cond # "unverifiable" /\ Verifies(code[k].fields)

\* CodegenMaterializeTuple: the function, NULL, or the fault of the build.
CodegenMaterializeTupleResult(node, u) ==
    LET r == CodegenReadRecord(<<>>, node.avro_schema, node, u) IN
    IF r.status = "SIGSEGV" THEN [state |-> "SIGSEGV", code |-> <<>>]
    ELSE IF r.status # "OK" THEN [state |-> "NULL", code |-> <<>>]
    ELSE IF ~Verifies(r.code) THEN [state |-> "NULL", code |-> <<>>]
    ELSE [state |-> "fn", code |-> r.code]

RECURSIVE RunFrom(_, _, _, _)
\* br i1 %cond, label %end_field, label %bail_out
RunBranch(code, k, data, cond, after) ==
    IF ~after.ok THEN after
    ELSE IF cond = "false" THEN [after EXCEPT !.ok = FALSE]
    ELSE RunFrom(code, k + 1, data, after)

\* Field k of the generated function, u being what its union read gave.
RunField(code, k, data, fc, u) ==
    IF ~u.st.ok THEN u.st
    ELSE IF u.is_null THEN RunFrom(code, k + 1, data, SetNull(u.st, fc.slot))
    ELSE IF fc.is_record
    THEN RunBranch(code, k, data, fc.cond, RunFrom(fc.fields, 1, data, u.st))
    ELSE RunBranch(code, k, data, "true", ReadLeaf(fc.call, data, u.st))

\* The generated MaterializeTuple from field k of code on: ret i1 true after
\* the last field, ret i1 false from bail_out.
RunFrom(code, k, data, st) ==
    IF k > Len(code) THEN st
    ELSE RunField(code, k, data, code[k],
             IF code[k].nullable
             THEN ReadUnionType(code[k].null_union_position, data, st)
             ELSE [st |-> st, is_null |-> FALSE])

\* What a decoder that ran leaves.
Decoded(st) ==
    [ran |-> TRUE, success |-> st.ok, cursor |-> st.cursor,
     tuple |-> st.tuple, reads |-> st.reads]

MaxRecordBytes == 3    \* bytes of a record's data

\* The bytes of a record's data: the zig-zag longs 0, -1 and 1.
RecordBytes == 0..2

RecordData == UNION { [1..n -> RecordBytes] : n \in 0..MaxRecordBytes }

\* Reader schemas: scalars, nullable fields with the null branch first or
\* second, a record field before or after a scalar, a nullable record, and a
\* decimal.
DecodeSchemas ==
    { Record(<<"a", "b">>, <<NoDefault, NoDefault>>, <<a, b>>, -1) :
        a \in {Int32, Scalar("AVRO_INT32", 0), Scalar("AVRO_STRING", 1), RecX,
               Record(<<"x">>, <<NoDefault>>, <<Int32>>, 0), Decimal(4, 2, -1)},
        b \in {Scalar("AVRO_BOOLEAN", -1), Scalar("AVRO_STRING", -1)} }
    \cup { Record(<<"a", "b">>, <<NoDefault, NoDefault>>, <<Int32, RecX>>, -1) }

DecodeSlotTypes ==
    { ColumnType("TYPE_INT"), ColumnType("TYPE_BIGINT"), ColumnType("TYPE_BOOLEAN"),
      ColumnType("TYPE_STRING"), VarcharType(1) }

\* A table read from a file of the table's own schema, the slots ones that
\* this schema resolves, and a block holding the bytes of one record.
InitDecode ==
    /\ build \in Builds
    /\ \E t \in DecodeSchemas, nkeys \in PartitionKeyCounts :
       \E sl \in SlotLists(nkeys, DecodeSlotTypes) :
        /\ ResolveSchemasResult([dchecks |-> TRUE, wild_read |-> "fault"],
                                ScanNode(t, sl, nkeys),
                                NewHeader(t, Len(sl))).status = "OK"
        /\ scan_node = ScanNode(t, sl, nkeys)
        /\ avro_header_ = NewHeader(t, Len(sl))
    /\ stream_ = NoStream
    /\ counts_read = <<>>
    /\ status = "NONE"
    /\ op = "none"
    /\ codegend_decode_avro_data_ = "NULL"
    /\ decompressor_ = "NONE"
    /\ blocks = <<>>
    /\ ranges = 0
    /\ \E data \in RecordData :
        frame = [pc |-> "records", num_records |-> 1, data |-> data, cursor |-> 0]
    /\ materialize_tuple_fn = NoFn
    /\ interpreted = NotRun
    /\ specialized = NotRun
    /\ sink = NewSink(1, -1)

\* Codegen's call of CodegenMaterializeTuple for the scan node.
CodegenMaterializeTuple ==
    /\ materialize_tuple_fn = NoFn
    /\ status # "SIGSEGV"
    /\ \E u \in UninitBranch :
       \E fn \in { CodegenMaterializeTupleResult(scan_node, u) } :
        /\ materialize_tuple_fn' = fn
        /\ status' = IF fn.state = "SIGSEGV" THEN "SIGSEGV" ELSE status
    /\ UNCHANGED <<build, scan_node, avro_header_, stream_, counts_read, op,
                   codegend_decode_avro_data_, decompressor_, sink, blocks,
                   ranges, loop_vars, interpreted, specialized>>

\* The interpreted MaterializeTuple on the record in the block's data.
MaterializeTuple ==
    /\ op = "ResolveSchemas"
    /\ status = "OK"
    /\ ~interpreted.ran
    /\ interpreted' =
           Decoded(MaterializeTupleResult(avro_header_,
                       scan_node.materialized_slots, frame.data))
    /\ UNCHANGED <<build, scan_node, avro_header_, stream_, counts_read, status,
                   op, codegend_decode_avro_data_, decompressor_, sink, blocks,
                   ranges, loop_vars, materialize_tuple_fn, specialized>>

\* The generated MaterializeTuple on the same record.
GeneratedMaterializeTuple ==
    /\ op = "ResolveSchemas"
    /\ status = "OK"
    /\ materialize_tuple_fn.state = "fn"
    /\ ~specialized.ran
    /\ specialized' =
           Decoded(RunFrom(materialize_tuple_fn.code, 1, frame.data,
                           NewDecode(Len(scan_node.materialized_slots))))
    /\ UNCHANGED <<build, scan_node, avro_header_, stream_, counts_read, status,
                   op, codegend_decode_avro_data_, decompressor_, sink, blocks,
                   ranges, loop_vars, materialize_tuple_fn, interpreted>>

NextDecode ==
    \/ ResolveSchemas
    \/ CodegenMaterializeTuple
    \/ MaterializeTuple
    \/ GeneratedMaterializeTuple

SpecDecode == InitDecode /\ [][NextDecode]_vars

(***************************************************************************)
(* Claims about the resolver (checked under SpecResolve)                   *)
(***************************************************************************)

Resolved == op = "ResolveSchemas" /\ status = "OK"

\* The leaves of the file schema bound to the slot at position s.
LeavesOf(s) == { p \in DOMAIN avro_header_.slot_desc : avro_header_.slot_desc[p] = s }

Prefilled(s) == avro_header_.template_tuple[s].written

SlotIds == 1..Len(scan_node.materialized_slots)

\* C1: whenever ResolveSchemas returns OK, every materialized slot is bound to
\* exactly one leaf of the file schema or pre-filled in the template tuple
\* from a default, never both and never neither.
C1_BoundXorPrefilled ==
    Resolved =>
        \A s \in SlotIds :
            \/ Cardinality(LeavesOf(s)) = 1 /\ ~Prefilled(s)
            \/ Cardinality(LeavesOf(s)) = 0 /\ Prefilled(s)

\* The promotion matrix of the specification: the slot types a writer leaf of
\* an Avro type may feed (every slot is nullable, so a null writer feeds any).
PromotionMatrix(w) ==
    CASE w.type = "AVRO_BOOLEAN" -> {ColumnType("TYPE_BOOLEAN")}
      [] w.type = "AVRO_INT32" ->
            {ColumnType(t) : t \in {"TYPE_INT", "TYPE_BIGINT", "TYPE_FLOAT", "TYPE_DOUBLE"}}
      [] w.type = "AVRO_INT64" ->
            {ColumnType(t) : t \in {"TYPE_BIGINT", "TYPE_FLOAT", "TYPE_DOUBLE"}}
      [] w.type = "AVRO_FLOAT" -> {ColumnType(t) : t \in {"TYPE_FLOAT", "TYPE_DOUBLE"}}
      [] w.type = "AVRO_DOUBLE" -> {ColumnType("TYPE_DOUBLE")}
      [] w.type \in {"AVRO_STRING", "AVRO_BYTES"} ->
            {ColumnType(t) : t \in {"TYPE_STRING", "TYPE_VARCHAR", "TYPE_CHAR"}}
      [] w.type = "AVRO_DECIMAL" -> {DecimalType(w.precision, w.scale)}
      [] w.type = "AVRO_NULL" -> SlotTypes
      [] OTHER -> {}

BoundLeaves == { p \in DOMAIN avro_header_.slot_desc : avro_header_.slot_desc[p] # 0 }

\* C2: whenever ResolveSchemas returns OK, the slot bound to a writer leaf has
\* a type the promotion matrix allows for that leaf's Avro type.
C2_BoundSlotAssignable ==
    Resolved =>
        \A p \in BoundLeaves :
            scan_node.materialized_slots[avro_header_.slot_desc[p]].type
                \in PromotionMatrix(NodeAt(avro_header_.schema, p))

\* C2 witness: a leaf bound through two promotions, int32 in the file, int64
\* in the table, a double slot.
C2_Witness ==
    /\ Resolved
    /\ \E p \in BoundLeaves :
        /\ NodeAt(avro_header_.schema, p).type = "AVRO_INT32"
        /\ scan_node.avro_schema.children[1].type = "AVRO_INT64"
        /\ scan_node.materialized_slots[avro_header_.slot_desc[p]].type.type = "TYPE_DOUBLE"

\* The first step of the first slot's path: the reader field it names and the
\* writer field of that name (0 when the writer has none).
FirstSlot == scan_node.materialized_slots[1]
FirstIdx == FirstSlot.col_path[1] - scan_node.num_partition_keys
FirstInRange == FirstIdx < Len(scan_node.avro_schema.children)
FirstTableField == scan_node.avro_schema.children[FirstIdx + 1]
FirstFileIdx ==
    FieldGetIndex(avro_header_.schema, scan_node.avro_schema.names[FirstIdx + 1])
FirstFileField == avro_header_.schema.children[FirstFileIdx + 1]

\* C6: a step that is not the last of its path and lands on a reader or writer
\* field that is not a record fails with AVRO_NOT_A_RECORD. Stated for the
\* first step of the first slot, whose fields exist and pass the type check.
C6_NotARecord ==
    ( /\ op = "ResolveSchemas"
      /\ Len(FirstSlot.col_path) > 1
      /\ FirstInRange
      /\ FirstFileIdx >= 0
      /\ VerifyTypesMatchElement([dchecks |-> FALSE], FirstTableField, FirstFileField) = "OK"
      /\ \/ FirstTableField.type # "AVRO_RECORD"
         \/ FirstFileField.type # "AVRO_RECORD" )
    => status = "AVRO_NOT_A_RECORD"

\* C7: a reader field that is absent from the writer and has a default, at a
\* step that is not the last of the path, makes resolution fail without
\* writing the template tuple. Stated for the first step of the first slot.
C7_NoDefaultAtInnerStep ==
    ( /\ op = "ResolveSchemas"
      /\ Len(FirstSlot.col_path) > 1
      /\ FirstInRange
      /\ FirstFileIdx < 0
      /\ scan_node.avro_schema.defaults[FirstIdx + 1] # NoDefault )
    => /\ status # "OK"
       /\ ~Prefilled(1)

\* The tables and files of one column: the reader leaf, the writer leaf of
\* the same name and the slot reading the column.
OneColumn ==
    /\ Len(scan_node.avro_schema.children) = 1
    /\ Len(avro_header_.schema.children) = 1
    /\ Len(scan_node.materialized_slots) = 1
ReaderLeaf == scan_node.avro_schema.children[1]
WriterLeaf == avro_header_.schema.children[1]

\* The writer types of the promotion table.
TableWriterTypes ==
    {"AVRO_BOOLEAN", "AVRO_INT32", "AVRO_INT64", "AVRO_FLOAT", "AVRO_DOUBLE",
     "AVRO_STRING", "AVRO_BYTES", "AVRO_DECIMAL"}

\* C11: VerifyTypesMatch(reader_type, writer_type) is true exactly for the
\* pairs of the promotion table. It is applied twice in resolving a column:
\* to the reader leaf against the writer leaf, where false is
\* AVRO_SCHEMA_RESOLUTION_ERROR, and then to the slot's type against the
\* reader leaf, where false is AVRO_SCHEMA_METADATA_MISMATCH.
C11_PromotionTable ==
    (op = "ResolveSchemas" /\ OneColumn) =>
        /\ ( /\ ~(~nullable(ReaderLeaf) /\ nullable(WriterLeaf))
             /\ ReaderLeaf.type \in TableWriterTypes
             /\ WriterLeaf.type \in TableWriterTypes )
           => ( status # "AVRO_SCHEMA_RESOLUTION_ERROR"
                  <=> AvroSchemaToColumnType(ReaderLeaf) \in PromotionMatrix(WriterLeaf) )
        /\ ( /\ status \in {"OK", "AVRO_SCHEMA_METADATA_MISMATCH"}
             /\ ReaderLeaf.type \in TableWriterTypes )
           => ( status = "OK" <=> FirstSlot.type \in PromotionMatrix(ReaderLeaf) )

\* An int64 column is refused to an int slot, after an int32 writer leaf was
\* let into the int64 column.
C11_Witness ==
    /\ op = "ResolveSchemas"
    /\ OneColumn
    /\ WriterLeaf.type = "AVRO_INT32"
    /\ ReaderLeaf.type = "AVRO_INT64"
    /\ FirstSlot.type.type = "TYPE_INT"
    /\ status = "AVRO_SCHEMA_METADATA_MISMATCH"

\* C12: a nullable writer field read into a non-nullable reader field fails
\* with the nullability error whatever the two types are; a non-nullable
\* writer field read into a nullable reader field never fails with the
\* nullability error, and for the writer types of the promotion table it
\* fails with the type error exactly when the promotion check fails.
C12_NullabilityCheck ==
    (op = "ResolveSchemas" /\ OneColumn) =>
        /\ (nullable(WriterLeaf) /\ ~nullable(ReaderLeaf))
              => status = "AVRO_NULLABILITY_MISMATCH"
        /\ (~nullable(WriterLeaf) /\ nullable(ReaderLeaf))
              => /\ status # "AVRO_NULLABILITY_MISMATCH"
                 /\ ( /\ WriterLeaf.type \in TableWriterTypes
                      /\ ReaderLeaf.type \in TableWriterTypes )
                    => ( status = "AVRO_SCHEMA_RESOLUTION_ERROR"
                           <=> AvroSchemaToColumnType(ReaderLeaf)
                                 \notin PromotionMatrix(WriterLeaf) )

\* A nullable string writer field read into a non-nullable int reader field.
C12_Witness ==
    /\ op = "ResolveSchemas" /\ OneColumn
    /\ nullable(WriterLeaf) /\ ~nullable(ReaderLeaf)
    /\ WriterLeaf.type = "AVRO_STRING" /\ ReaderLeaf.type = "AVRO_INT32"
    /\ status = "AVRO_NULLABILITY_MISMATCH"

\* The last step of the first slot's path, for paths of one step and for
\* paths of two steps whose first step lands on a record in both schemas:
\* the records it looks in, the reader field's index and default, and the
\* place of the writer field of the reader field's name.
LastReaderRecord ==
    IF Len(FirstSlot.col_path) = 1 THEN scan_node.avro_schema ELSE FirstTableField
LastWriterRecord ==
    IF Len(FirstSlot.col_path) = 1 THEN avro_header_.schema ELSE FirstFileField
LastWriterPath ==
    IF Len(FirstSlot.col_path) = 1 THEN <<>> ELSE <<FirstFileIdx + 1>>
LastIdx ==
    IF Len(FirstSlot.col_path) = 1 THEN FirstIdx ELSE FirstSlot.col_path[2]
ReachesLastStep ==
    /\ op = "ResolveSchemas"
    /\ \/ Len(FirstSlot.col_path) = 1
       \/ /\ Len(FirstSlot.col_path) = 2
          /\ FirstInRange
          /\ FirstFileIdx >= 0
          /\ FirstTableField.type = "AVRO_RECORD"
          /\ FirstFileField.type = "AVRO_RECORD"
          /\ ~(~nullable(FirstTableField) /\ nullable(FirstFileField))
    /\ LastIdx < Len(LastReaderRecord.children)
LastFileIdx == FieldGetIndex(LastWriterRecord, LastReaderRecord.names[LastIdx + 1])
LastDefault == LastReaderRecord.defaults[LastIdx + 1]
LastAbsent == ReachesLastStep /\ LastFileIdx < 0

\* The writer field is the one of the reader field's name: the first slot is
\* bound to no other leaf.
BoundByName ==
    (ReachesLastStep /\ LastFileIdx >= 0) =>
        LeavesOf(1) \subseteq {Append(LastWriterPath, LastFileIdx + 1)}

\* C13 as stated: the writer field of a step is looked up by the reader
\* field's name; a name absent from the writer record at the last step fails
\* with AVRO_MISSING_DEFAULT when the reader field has no default, and
\* otherwise the default is written to the template tuple at the slot and no
\* writer leaf is bound to the slot.
C13_AbsentFieldTakesDefault ==
    /\ BoundByName
    /\ LastAbsent =>
          IF LastDefault = NoDefault
          THEN status = "AVRO_MISSING_DEFAULT"
          ELSE Prefilled(1) /\ LeavesOf(1) = {}

\* C13 amended: as above, but a default is written only when WriteDefaultValue
\* accepts it: a default of a kind it does not write fails with
\* AVRO_UNSUPPORTED_DEFAULT_VALUE, a default whose type the slot cannot take
\* fails with AVRO_SCHEMA_METADATA_MISMATCH, both leaving the template tuple
\* unwritten.
C13_AbsentFieldTakesWritableDefault ==
    /\ BoundByName
    /\ LastAbsent =>
          /\ LeavesOf(1) = {}
          /\ CASE LastDefault = NoDefault ->
                    status = "AVRO_MISSING_DEFAULT" /\ ~Prefilled(1)
               [] LastDefault.type \notin WritableDefaults \cup {"AVRO_NULL", "NONE"} ->
                    status = "AVRO_UNSUPPORTED_DEFAULT_VALUE" /\ ~Prefilled(1)
               [] /\ LastDefault.type \in WritableDefaults
                  /\ FirstSlot.type \notin PromotionMatrix(LastDefault) ->
                    status = "AVRO_SCHEMA_METADATA_MISMATCH" /\ ~Prefilled(1)
               [] OTHER ->
                    /\ Prefilled(1)
                    /\ avro_header_.template_tuple[1].is_null
                          = (LastDefault.type = "AVRO_NULL")
                    /\ avro_header_.template_tuple[1].value = LastDefault.value

\* A field y of an inner record that the writer's record lacks, filled from
\* its default.
C13_Witness ==
    /\ Resolved /\ LastAbsent
    /\ Len(FirstSlot.col_path) = 2
    /\ LastDefault = IntDefault
    /\ avro_header_.template_tuple[1] = [written |-> TRUE, is_null |-> FALSE, value |-> 5]
    /\ LeavesOf(1) = {}

\* The second step of the first slot's path is looked at: the first step
\* found both fields and they passed the type check.
SecondStepReached ==
    /\ op = "ResolveSchemas"
    /\ Len(FirstSlot.col_path) >= 2
    /\ FirstInRange
    /\ FirstFileIdx >= 0
    /\ VerifyTypesMatchElement([dchecks |-> FALSE], FirstTableField, FirstFileField) = "OK"

\* C18: the reader index of a step is path[0] - num_partition_keys at depth
\* 0 and path[i] below; an index that is not below the number of fields of
\* the current reader record fails with AVRO_MISSING_FIELD, nothing bound
\* and nothing written for the slot; an index in range does not.
C18_IndexBeyondArity ==
    op = "ResolveSchemas" =>
        /\ ~FirstInRange =>
              /\ status = "AVRO_MISSING_FIELD"
              /\ avro_header_ = NewHeader(avro_header_.schema,
                                          Len(scan_node.materialized_slots))
        /\ (SecondStepReached
               /\ FirstSlot.col_path[2] >= Len(FirstTableField.children)) =>
              /\ status = "AVRO_MISSING_FIELD"
              /\ LeavesOf(1) = {} /\ ~Prefilled(1)
        /\ ( /\ FirstInRange
             /\ Len(FirstSlot.col_path) = 1
             /\ Len(scan_node.materialized_slots) = 1 ) =>
              status # "AVRO_MISSING_FIELD"
        /\ BoundByName

\* With one partition key, a path [2] names the second column of a table
\* that has one.
C18_Witness ==
    /\ op = "ResolveSchemas"
    /\ scan_node.num_partition_keys = 1
    /\ FirstSlot.col_path = <<2>>
    /\ Len(scan_node.avro_schema.children) = 1
    /\ status = "AVRO_MISSING_FIELD"

(***************************************************************************)
(* Claims about the header decoder (checked under SpecHeader)              *)
(***************************************************************************)

HeaderRead == op = "ReadFileHeader"

LastCount == counts_read[Len(counts_read)]

\* C8 as stated: a block count of 0 ends the metadata map wherever it is
\* read, the first count included, and AVRO_INVALID_METADATA_COUNT is raised
\* only for a negative count.
C8_ZeroAlwaysEndsMap ==
    (HeaderRead /\ counts_read # <<>>) =>
        /\ status = "AVRO_INVALID_METADATA_COUNT" => LastCount.value < 0
        /\ LastCount.value = 0 => status # "AVRO_INVALID_METADATA_COUNT"

\* C8, amended: a block count of 0 ends the metadata map when it is read
\* after at least one block, and then nothing but the sync marker is read;
\* AVRO_INVALID_METADATA_COUNT is raised exactly when the first count read is
\* below 1 (an empty map included) or a later count is below 0.
C8_ZeroEndsMapAfterFirstBlock ==
    (HeaderRead /\ counts_read # <<>>) =>
        /\ \A i \in 1..(Len(counts_read) - 1) : counts_read[i].value > 0
        /\ status = "AVRO_INVALID_METADATA_COUNT" <=>
              IF Len(counts_read) = 1 THEN LastCount.value < 1
              ELSE LastCount.value < 0
        /\ (Len(counts_read) > 1 /\ LastCount.value = 0) =>
              /\ status \in {"OK", "ShortRead",
                             "Schema not found in file header metadata"}
              /\ stream_.total_bytes_returned \in
                     {LastCount.end, LastCount.end + SYNC_HASH_SIZE}

\* An empty map: the first count read is 0 and the count is refused.
C8_Witness ==
    /\ HeaderRead
    /\ Len(counts_read) = 1
    /\ counts_read[1].value = 0
    /\ status = "AVRO_INVALID_METADATA_COUNT"

\* C9: after reading a negative block count the decoder goes on to read the
\* byte size that follows and the entries of the block, and does not fail on
\* the count.
C9_NegativeCountDecoded ==
    HeaderRead =>
        \A i \in 1..Len(counts_read) :
            counts_read[i].value < 0 =>
                /\ status # "AVRO_INVALID_METADATA_COUNT"
                /\ stream_.total_bytes_returned > counts_read[i].end

\* ParseMetadata returned OK: ReadFileHeader returned OK, or failed reading
\* the sync marker that follows the map's closing count.
ParseMetadataOK ==
    /\ HeaderRead
    /\ \/ status = "OK"
       \/ /\ status = "ShortRead"
          /\ Len(counts_read) > 1
          /\ LastCount.value = 0

\* The map was read to its closing count.
MapEnded == HeaderRead /\ Len(counts_read) > 1 /\ LastCount.value = 0

RECURSIVE CodecValues(_, _, _)
\* The values of the avro.codec entries of the metadata map in bytes, in file
\* order, read from pos with n entries left in the current block, as far as
\* the map is well-formed.
CodecValues(bytes, pos, n) ==
    IF n = 0
    THEN LET c == ReadZLong(bytes, pos) IN
         IF ~c.ok \/ c.value <= 0 THEN <<>> ELSE CodecValues(bytes, c.pos, c.value)
    ELSE
    LET kl == ReadZLong(bytes, pos) IN
    IF ~kl.ok \/ kl.value < 0 THEN <<>>
    ELSE
    LET k == ReadBytes(bytes, kl.pos, kl.value) IN
    IF ~k.ok THEN <<>>
    ELSE
    LET vl == ReadZLong(bytes, k.pos) IN
    IF ~vl.ok \/ vl.value < 0 THEN <<>>
    ELSE
    LET v == ReadBytes(bytes, vl.pos, vl.value) IN
    IF ~v.ok THEN <<>>
    ELSE (IF k.data = AVRO_CODEC_KEY THEN <<v.data>> ELSE <<>>)
         \o CodecValues(bytes, v.pos, n - 1)

FileCodecs == CodecValues(stream_.bytes, Len(AVRO_VERSION_HEADER), 0)

KnownCodecs == {AVRO_NULL_CODEC, AVRO_SNAPPY_CODEC, AVRO_DEFLATE_CODEC}

\* The compression type a codec value selects.
CodecSelects(value) ==
    IF value = AVRO_SNAPPY_CODEC THEN "SNAPPY"
    ELSE IF value = AVRO_DEFLATE_CODEC THEN "DEFLATE"
    ELSE "NONE"

\* The selection a list of codec values leaves: that of its last value other
\* than "null" (so, with at most one avro.codec entry, that of the entry).
Selected(cv) ==
    LET nn == { i \in 1..Len(cv) : cv[i] # AVRO_NULL_CODEC }
    IN IF nn = {} THEN "NONE"
       ELSE CodecSelects(cv[CHOOSE i \in nn : \A j \in nn : j <= i])

\* C15: after a successful ParseMetadata the header is uncompressed when the
\* map has no avro.codec entry or its value is "null", snappy for "snappy",
\* deflate for "deflate"; no map with another codec value parses, and
\* the unknown-codec error is raised only for such a value; is_compressed is
\* true exactly for snappy and deflate.
C15_CodecSelection ==
    /\ ParseMetadataOK =>
          /\ \A i \in 1..Len(FileCodecs) : FileCodecs[i] \in KnownCodecs
          /\ avro_header_.compression_type = Selected(FileCodecs)
          /\ avro_header_.is_compressed
                <=> avro_header_.compression_type \in {"SNAPPY", "DEFLATE"}
    /\ (HeaderRead /\ status = "Unknown Avro compression codec") =>
          \E i \in 1..Len(FileCodecs) : FileCodecs[i] \notin KnownCodecs

\* A file whose only codec entry is "snappy", read successfully.
C15_Witness ==
    /\ HeaderRead /\ status = "OK"
    /\ FileCodecs = <<AVRO_SNAPPY_CODEC>>
    /\ avro_header_.compression_type = "SNAPPY"
    /\ avro_header_.is_compressed

\* The first n bytes of a file (all of it when it has fewer).
Prefix(bytes, n) == SubSeq(bytes, 1, IF n < Len(bytes) THEN n ELSE Len(bytes))

\* ReadFileHeader run again, by the same scan node into a fresh header, on the
\* first n bytes of the file.
Reread(n) ==
    ReadFileHeaderResult([dchecks |-> build.dchecks, wild_read |-> "miss"],
                         scan_node,
                         NewHeader(NoSchema, Len(scan_node.materialized_slots)),
                         Prefix(stream_.bytes, n))

\* C10 as stated: reading the header again from the first header_size bytes
\* of the file gives the same writer schema, codec and sync marker.
C10_RereadHeaderSizeBytes ==
    (HeaderRead /\ status = "OK") =>
        LET r == Reread(avro_header_.header_size)
        IN /\ r.status = "OK"
           /\ r.header.schema = avro_header_.schema
           /\ r.header.is_compressed = avro_header_.is_compressed
           /\ r.header.compression_type = avro_header_.compression_type
           /\ r.header.sync = avro_header_.sync

\* C10, amended: header_size is the offset of the sync marker, so it covers
\* the bytes the header decoder consumed except the 16 of the sync marker.
\* Reading the header again from the first header_size bytes fails for want
\* of the sync marker; from the first header_size + 16 bytes it gives the
\* same header.
C10_HeaderSizeStopsAtSync ==
    (HeaderRead /\ status = "OK") =>
        /\ avro_header_.header_size + SYNC_HASH_SIZE = stream_.total_bytes_returned
        /\ Reread(avro_header_.header_size).status = "ShortRead"
        /\ LET r == Reread(avro_header_.header_size + SYNC_HASH_SIZE)
           IN /\ r.status = "OK"
              /\ r.header = avro_header_

\* A compressed file's header was read, and the file goes on after it.
C10_Witness ==
    /\ HeaderRead
    /\ status = "OK"
    /\ avro_header_.is_compressed
    /\ avro_header_.header_size + SYNC_HASH_SIZE < Len(stream_.bytes)

(***************************************************************************)
(* Claims about the block loop (checked under SpecScan)                    *)
(***************************************************************************)

RangeProcessed == op = "ProcessRange"

\* The batches of the blocks of the range, as pairs <<block, batch>>.
BatchIds ==
    { <<i, j>> \in (1..Len(blocks)) \X (1..(MaxRecords + 1)) :
        j <= Len(blocks[i].batches) }

BatchAt(id) == blocks[id[1]].batches[id[2]]

RECURSIVE SumCommitted(_)
\* The rows the batches committed.
SumCommitted(batches) ==
    IF batches = <<>> THEN 0
    ELSE Head(batches).committed + SumCommitted(Tail(batches))

\* C3: a batch is decoded by the codegen'd function only if the header of
\* the file being scanned has use_codegend_decode_avro_data set; when it is
\* not set, a batch that is decoded is decoded by the interpreted
\* DecodeAvroData.
C3_CodegenOnlyWhenFlagSet ==
    RangeProcessed =>
        \A id \in BatchIds :
            /\ BatchAt(id).decoder = "codegend_decode_avro_data_" =>
                   avro_header_.use_codegend_decode_avro_data
            /\ (~avro_header_.use_codegend_decode_avro_data
                    /\ BatchAt(id).decoder # "WriteEmptyTuples") =>
                   BatchAt(id).decoder = "DecodeAvroData"

\* C4 as stated: of a batch in which decoding fails, the rows committed are
\* the rows the decoder reported as decoded before the failure.
C4_FailedBatchCommitsDecoded ==
    RangeProcessed =>
        \A id \in BatchIds :
            BatchAt(id).parse_status # "OK" =>
                BatchAt(id).committed = BatchAt(id).num_to_commit

\* C4, amended: of a batch in which decoding fails no row is committed,
\* whatever number the decoder reported: ProcessRange returns the decoder's
\* error before the commit. The failed batch is the last of the range, and
\* the rows of the block's earlier batches stay committed.
C4_FailedBatchCommitsNothing ==
    RangeProcessed =>
        \A id \in BatchIds :
            BatchAt(id).parse_status # "OK" =>
                /\ BatchAt(id).committed = 0
                /\ status = BatchAt(id).parse_status
                /\ id[1] = Len(blocks)
                /\ id[2] = Len(blocks[id[1]].batches)
                /\ blocks[id[1]].outcome = "error"
                /\ sink.committed = blocks[id[1]].committed_before
                       + SumCommitted(SubSeq(blocks[id[1]].batches, 1, id[2] - 1))
                /\ \A j \in 1..(id[2] - 1) :
                       /\ blocks[id[1]].batches[j].parse_status = "OK"
                       /\ blocks[id[1]].batches[j].committed
                              = blocks[id[1]].batches[j].max_tuples

\* A batch failed after the decoder had decoded a record of it.
C4_Witness ==
    /\ RangeProcessed
    /\ \E id \in BatchIds :
        /\ BatchAt(id).parse_status # "OK"
        /\ BatchAt(id).num_to_commit > 0

SyncRead(i) == Len(blocks[i].sync) = SYNC_HASH_SIZE

C19_DecompressorInputLength ==
    RangeProcessed =>
        \A i \in 1..Len(blocks) :
            IF ~avro_header_.is_compressed
            THEN /\ ~blocks[i].decompressed
                 /\ blocks[i].data_len = blocks[i].compressed_size
            ELSE /\ blocks[i].decompressed
                 /\ avro_header_.compression_type = "SNAPPY" =>
                       blocks[i].input_length
                           = blocks[i].compressed_size - TRAILING_CHECKSUM_LEN
                 /\ avro_header_.compression_type = "DEFLATE" =>
                       blocks[i].input_length = blocks[i].compressed_size

\* A snappy block of two records: 7 bytes declared, 3 given to the
\* decompressor, 2 decoded.
C19_Witness ==
    /\ RangeProcessed
    /\ status = "OK"
    /\ avro_header_.compression_type = "SNAPPY"
    /\ Len(blocks) = 1
    /\ blocks[1].compressed_size = 7
    /\ blocks[1].input_length = 3
    /\ blocks[1].data_len = 2

\* C22: the input length handed to the decompressor is at least 0 and at
\* most the number of block bytes read, for every block whose declared size
\* was not below 0.
C22_InputLengthInRange ==
    \A i \in 1..Len(blocks) :
        blocks[i].decompressed =>
            /\ 0 <= blocks[i].input_length
            /\ blocks[i].input_length <= blocks[i].compressed_size

(***************************************************************************)
(* Claims about ProcessRange step by step (checked under SpecRangeSteps)   *)
(***************************************************************************)

\* A return with OK: the range is finished, or the limit was reached by the
\* batch just committed and the block's sync marker was left unread.
ReturnedOK ==
    \/ /\ stream_.total_bytes_returned >= Len(stream_.bytes)
       /\ blocks # <<>> => LastBlock.outcome = "done"
    \/ /\ blocks # <<>>
       /\ LastBlock.outcome = "limit"
       /\ LastBlock.sync = <<>>
       /\ LastBlock.batches # <<>>
       /\ ReachedLimit(sink.limit, sink.committed)

\* C20: with a sink that hands out at least one tuple per batch, ProcessRange
\* returns; a batch after which the block loop goes on takes
\* min(num_records, capacity) off num_records, which stays at or above 0 and,
\* with a capacity of 1 or more, gets smaller; a return with OK is a finished
\* range or a limit reached at a commit, the sync marker unread.
C20_ProcessRangeTerminates ==
    /\ (InRange /\ sink.capacity >= 1) ~> (op = "ProcessRange")
    /\ [][ (frame.pc = "records" /\ frame'.pc = "records") =>
             /\ frame'.num_records
                   = frame.num_records
                       - (IF frame.num_records < sink.capacity
                          THEN frame.num_records ELSE sink.capacity)
             /\ frame'.num_records >= 0
             /\ sink.capacity >= 1 => frame'.num_records < frame.num_records ]_vars
    /\ []((op = "ProcessRange" /\ status = "OK") => ReturnedOK)

\* A block of two records committed in two batches of one, the range
\* finished.
C20_Witness ==
    /\ op = "ProcessRange"
    /\ status = "OK"
    /\ sink.capacity = 1
    /\ blocks # <<>>
    /\ LastBlock.num_records = 2
    /\ Len(LastBlock.batches) = 2
    /\ LastBlock.outcome = "done"

(***************************************************************************)
(* Claims about the decoders (checked under SpecDecode)                    *)
(***************************************************************************)

\* C16: for a file of the table's own schema, the generated MaterializeTuple
\* and the interpreted one, run on the same record, make the same union and
\* leaf reads with the same slots and leave the same tuple, the same cursor
\* and the same result.
C16_SameDecoding ==
    (interpreted.ran /\ specialized.ran) => specialized = interpreted

(***************************************************************************)
(* Claims about column paths among the partition keys (checked under       *)
(* SpecResolveKeyPaths)                                                    *)
(***************************************************************************)

\* C21: every index at which ResolveSchemas asks a table record for a field
\* name, a default or a child lies in 0 .. num_fields - 1, whatever the
\* column path and the number of partition keys.
C21_TableReadsInRange ==
    \A r \in avro_header_.table_reads :
        0 <= r.table_field_idx /\ r.table_field_idx < r.num_fields

====
